---- MODULE Spec2Model ----
(***************************************************************************)
(* The real-time subscription client of the SDK (class RealtimeResource,   *)
(* src/unnamed/part_001) as a state machine.                               *)
(*                                                                         *)
(* JavaScript runs one task at a time, so every action below is one task:  *)
(* the synchronous part of an API call, one socket event handler, one      *)
(* timer callback, or the continuation of one awaited promise (taken       *)
(* together with the task that settles the promise).                       *)
(*                                                                         *)
(* The environment is the token endpoint (a fetch succeeds or fails), the  *)
(* WebSocket (it opens, errors, closes, delivers frames) and the server    *)
(* (it may send any frame at any time on an open socket).  send() and      *)
(* close() of the socket are taken not to throw; ping() may be absent      *)
(* (browsers), send the probe, or throw.                                   *)
(***************************************************************************)
EXTENDS Integers, Sequences, FiniteSets, TLC

VARIABLES
    state,                  \* this.state
    ws,                     \* this.ws: 0 is null, i > 0 the socket of attempt i
    reconnectAttempts,      \* this.reconnectAttempts
    reconnectTimeout,       \* this.reconnectTimeout: TRUE while a timer is armed
    heartbeatInterval,      \* this.heartbeatInterval: TRUE while the timer runs
    autoReconnect,          \* this.config.autoReconnect
    maxReconnectAttempts,   \* this.config.maxReconnectAttempts
    subscribedToAll,        \* this.activeSubscriptions.subscribedToAll
    channels,               \* this.activeSubscriptions.channels (insertion order)
    eventTypes,             \* this.activeSubscriptions.eventTypes (insertion order)
    conn,                   \* the connect() attempts in flight, and their sockets
    cmds,                   \* the commands in flight: promise, timer, map entry
    ret,                    \* what the API call of this step returned or threw,
                            \* or what escaped from its timer callback
    sent,                   \* the frame this step sent over the socket
    emitted,                \* the error notifications of this step
    eventHandlers,          \* this.eventHandlers (insertion order)
    calls,                  \* the event listeners this step invoked, in order
    stateHandlers,          \* this.stateHandlers (insertion order)
    stateCalls,             \* the state listeners this step invoked, in order
    reconnectTimers,        \* the reconnect timers armed (set, not cleared or fired)
    reconnectInterval,      \* this.config.reconnectInterval
    armed,                  \* the delays of the reconnect timers this step armed
    http,                   \* the HTTP client and its request() in progress
    heartbeatTimers         \* the heartbeat timers running (set, not cleared)

vars == <<state, ws, reconnectAttempts, reconnectTimeout, heartbeatInterval,
          autoReconnect, maxReconnectAttempts, subscribedToAll, channels,
          eventTypes, conn, cmds, ret, sent, emitted, eventHandlers,
          calls, stateHandlers, stateCalls, reconnectTimers,
          reconnectInterval, armed, http, heartbeatTimers>>

----------------------------------------------------------------------------
(* Bounds of the model. *)

\* connect() attempts in flight at one time (token fetch pending or socket
\* not yet closed)
MaxConn == 2
\* subscription commands in flight at one time (promise not yet settled),
\* when the caller uses all six subscription operations
MaxCmds == 1
\* subscription commands in flight at one time, when the caller uses the two
\* channel operations only
MaxSameKey == 2
\* subscription commands in flight at one time, when the caller uses
\* subscribe(options) and unsubscribe(options) only
MaxOpt == 1
\* listeners the caller has to register
MaxHandlers == 2
\* state listeners the caller has to register
MaxStateHandlers == 1
\* state listeners the caller has to register when the notifications are
\* followed
MaxListeners == 2
\* values of config.maxRetries: 0..MaxRetries
MaxRetries == 6
\* reconnects in a row whose delay is computed
MaxAttempts == 10

----------------------------------------------------------------------------
(* Values. *)

ConnectionState == {"disconnected", "connecting", "connected", "reconnecting"}

\* the values of config.maxReconnectAttempts tried: unlimited, and limited
MaxReconnectAttemptsChoices == {0, 1}
DEFAULT_RECONNECT_INTERVAL == 1000
DEFAULT_MAX_RETRIES == 3
MAX_RECONNECT_INTERVAL == 30000
\* values of config.reconnectInterval: the default, values that reach the
\* cap early, late and never, the cap itself and a value above it
ReconnectIntervals == {DEFAULT_RECONNECT_INTERVAL, 1, 250, 7500, 30000, 45000}

\* the arrays a caller passes to subscribeChannels / unsubscribeChannels:
\* arrays of one channel id, and the array of two
ChannelSingles == {<<"a">>, <<"b">>}
ChannelPairs == {<<"a", "b">>}
ChannelArgs == ChannelSingles \cup ChannelPairs
\* the arrays a caller passes to subscribeEventTypes / unsubscribeEventTypes
EventTypeArgs == {<<"x">>}

\* the listeners of the caller: a listener either returns from every
\* invocation or throws from every invocation
Handlers == 1..MaxHandlers
throws(handler) == handler % 2 = 1
StateHandlers == 1..MaxStateHandlers
Listeners == 1..MaxListeners

\* a field of SubscribeOptions: absent, or an array
FieldAbsent == [present |-> FALSE, items |-> <<>>]
Field(items) == [present |-> TRUE, items |-> items]

\* options.field?.length is truthy
hasLength(field) == field.present /\ Len(field.items) > 0

\* the options a caller passes to subscribe(options) / unsubscribe(options)
OptionArgs ==
    [channels : {FieldAbsent, Field(<<>>), Field(<<"a", "b">>)},
     eventTypes : {FieldAbsent, Field(<<>>), Field(<<"x">>)}]

Actions == {"subscribe", "unsubscribe"}
SubscriptionTypes == {"all", "channel", "event_type"}

getSubscriptionKey(action, subscriptionType) == <<action, subscriptionType>>

Keys == {getSubscriptionKey(a, t) : a \in Actions, t \in SubscriptionTypes}

Range(s) == {s[i] : i \in 1..Len(s)}

\* Set.prototype.add on an insertion-ordered set
SetAdd(s, x) == IF x \in Range(s) THEN s ELSE Append(s, x)

\* Set.prototype.delete on an insertion-ordered set
SetDelete(s, x) == SelectSeq(s, LAMBDA y : y # x)

RECURSIVE AddEach(_, _)
AddEach(s, xs) ==
    IF xs = <<>> THEN s ELSE AddEach(SetAdd(s, Head(xs)), Tail(xs))

RECURSIVE DeleteEach(_, _)
DeleteEach(s, xs) ==
    IF xs = <<>> THEN s ELSE DeleteEach(SetDelete(s, Head(xs)), Tail(xs))

NoFrame == [type |-> "none", subscriptionType |-> "", items |-> <<>>]

----------------------------------------------------------------------------
(* connect() attempts.  An attempt lives in a slot from the call that       *)
(* passed the guard until its token fetch failed or its socket closed; the  *)
(* ended attempt stays visible, with the outcome of its promise, for the    *)
(* step that ended it and is dropped by the next step.                      *)

FreeSlot == [phase |-> "free", promise |-> "none", viaTimer |-> FALSE]

Live == {"fetching", "opening", "open", "closing", "aborting"}

\* n slots without attempt
RECURSIVE NoAttempts(_)
NoAttempts(n) == IF n = 0 THEN <<>> ELSE Append(NoAttempts(n - 1), FreeSlot)

RECURSIVE DropEnded(_)
DropEnded(c) ==
    IF c = <<>> THEN <<>>
    ELSE <<IF Head(c).phase \in Live THEN Head(c) ELSE FreeSlot>>
            \o DropEnded(Tail(c))

FreeSlots(c) == {i \in DOMAIN c : c[i].phase = "free"}

(* Subscription commands.  A command is kept from its send until its        *)
(* promise is settled; the settled command stays visible for the step that  *)
(* settled it and is dropped by the next step.  tracked says that           *)
(* pendingSubscriptions holds the command's entry under its key.            *)

InFlight(c) == c.result = "pending" \/ c.timer \/ c.tracked

DropSettled(s) == SelectSeq(s, InFlight)

KeyOf(c) == getSubscriptionKey(c.action, c.subscriptionType)

\* pendingGet as it would be if a second command of a key did not take the
\* key over: the oldest command of the key in flight is found
pendingGetOldest(S, key) ==
    LET held == {c \in 1..Len(S.cmds) : KeyOf(S.cmds[c]) = key}
    IN  IF held = {} THEN 0 ELSE CHOOSE c \in held : \A d \in held : c <= d

\* pendingSubscriptions.get(key): the command, 0 for undefined
pendingGet(S, key) ==
    LET held == {c \in 1..Len(S.cmds) : S.cmds[c].tracked /\ KeyOf(S.cmds[c]) = key}
    IN  IF held = {} THEN 0 ELSE CHOOSE c \in held : TRUE

\* the commands s with no entry held under key
RECURSIVE Untrack(_, _)
Untrack(s, key) ==
    IF s = <<>> THEN <<>>
    ELSE <<IF KeyOf(Head(s)) = key
           THEN [Head(s) EXCEPT !.tracked = FALSE]
           ELSE Head(s)>> \o Untrack(Tail(s), key)

\* pendingSubscriptions.delete(key)
pendingDelete(S, key) == [S EXCEPT !.cmds = Untrack(@, key)]

----------------------------------------------------------------------------
(* The instance and its environment as one record, so that a handler is a   *)
(* function from the record before it runs to the record after.  thrown is  *)
(* the exception in flight inside a handler ("" for none); full says that   *)
(* the handler needs more attempts in flight than MaxConn allows.           *)

Cur ==
    [state |-> state, ws |-> ws, reconnectAttempts |-> reconnectAttempts,
     reconnectTimeout |-> reconnectTimeout,
     heartbeatInterval |-> heartbeatInterval,
     autoReconnect |-> autoReconnect,
     maxReconnectAttempts |-> maxReconnectAttempts,
     subscribedToAll |-> subscribedToAll, channels |-> channels,
     eventTypes |-> eventTypes,
     conn |-> DropEnded(conn), cmds |-> DropSettled(cmds),
     ret |-> "none", sent |-> NoFrame, emitted |-> <<>>,
     eventHandlers |-> eventHandlers, calls |-> <<>>,
     stateHandlers |-> stateHandlers, stateCalls |-> <<>>,
     reconnectTimers |-> reconnectTimers,
     reconnectInterval |-> reconnectInterval, armed |-> <<>>,
     heartbeatTimers |-> heartbeatTimers,
     thrown |-> "", full |-> FALSE]

\* the step to the record X, with at most n commands in flight after it
Becomes(X, n) ==
    \E T \in {X} :
        /\ ~T.full
        /\ Len(DropSettled(T.cmds)) <= n
        /\ state' = T.state
        /\ ws' = T.ws
        /\ reconnectAttempts' = T.reconnectAttempts
        /\ reconnectTimeout' = T.reconnectTimeout
        /\ heartbeatInterval' = T.heartbeatInterval
        /\ autoReconnect' = T.autoReconnect
        /\ maxReconnectAttempts' = T.maxReconnectAttempts
        /\ subscribedToAll' = T.subscribedToAll
        /\ channels' = T.channels
        /\ eventTypes' = T.eventTypes
        /\ conn' = T.conn
        /\ cmds' = T.cmds
        /\ ret' = T.ret
        /\ sent' = T.sent
        /\ emitted' = T.emitted
        /\ eventHandlers' = T.eventHandlers
        /\ calls' = T.calls
        /\ stateHandlers' = T.stateHandlers
        /\ stateCalls' = T.stateCalls
        /\ reconnectTimers' = T.reconnectTimers
        /\ reconnectInterval' = T.reconnectInterval
        /\ armed' = T.armed
        /\ http' = http
        /\ heartbeatTimers' = T.heartbeatTimers

----------------------------------------------------------------------------
(* Private methods. *)

\* getState()
getState(S) == S.state

\* one state listener is invoked with the new state; observed is what
\* getState() returns to the listener while it runs
invokeState(S, handler, s) ==
    [S EXCEPT !.stateCalls = Append(@, [handler |-> handler, state |-> s,
                                        observed |-> getState(S)]),
              !.thrown = IF throws(handler) THEN "listener error" ELSE ""]

\* the loop of setState as it would be without the try/catch around each
\* listener: the first listener that throws ends it
RECURSIVE notifyStateNoCatch(_, _, _)
notifyStateNoCatch(S, handlers, s) ==
    IF handlers = <<>> THEN S
    ELSE LET S1 == invokeState(S, Head(handlers), s)
         IN  IF S1.thrown # "" THEN [S1 EXCEPT !.thrown = S.thrown]
             ELSE notifyStateNoCatch([S1 EXCEPT !.thrown = S.thrown],
                                     Tail(handlers), s)

\* the loop of setState over the listeners that are left: each listener is
\* told the state, and what a listener throws is caught and logged
RECURSIVE notifyState(_, _, _)
notifyState(S, handlers, s) ==
    IF handlers = <<>> THEN S
    ELSE LET S1 == invokeState(S, Head(handlers), s)
             \* catch: console.error, and on with the next listener
             S2 == [S1 EXCEPT !.thrown = S.thrown]
         IN  notifyState(S2, Tail(handlers), s)

\* setState as it would be without its first line
setStateAlways(S, s) ==
    notifyState([S EXCEPT !.state = s], S.stateHandlers, s)

\* setState as it would be if the listeners were told before the field is
\* written
setStateNotifiesFirst(S, s) ==
    IF S.state = s
    THEN S
    ELSE [notifyState(S, S.stateHandlers, s) EXCEPT !.state = s]

setState(S, s) ==
    IF S.state = s
    THEN S
    ELSE notifyState([S EXCEPT !.state = s], S.stateHandlers, s)

emitError(S, msg) == [S EXCEPT !.emitted = Append(@, msg)]

\* clearInterval stops the timer whose handle the field holds
stopHeartbeat(S) ==
    IF S.heartbeatInterval
    THEN [S EXCEPT !.heartbeatInterval = FALSE, !.heartbeatTimers = @ - 1]
    ELSE S

startHeartbeat(S) ==
    [stopHeartbeat(S) EXCEPT !.heartbeatInterval = TRUE,
                             !.heartbeatTimers = @ + 1]

\* clearTimeout cancels the timer whose handle the field holds
clearReconnectTimeout(S) ==
    IF S.reconnectTimeout
    THEN [S EXCEPT !.reconnectTimeout = FALSE, !.reconnectTimers = @ - 1]
    ELSE S

shouldReconnect(S) ==
    IF S.maxReconnectAttempts = 0
    THEN TRUE
    ELSE S.reconnectAttempts < S.maxReconnectAttempts

\* Math.pow(base, exponent), for the exponents scheduleReconnect passes
\* (the counter is at least 1 after its increment)
RECURSIVE Pow(_, _)
Pow(base, exponent) ==
    IF exponent = 0 THEN 1 ELSE base * Pow(base, exponent - 1)

\* Math.min(a, b)
Min(a, b) == IF a < b THEN a ELSE b

\* the delay as it would be if the exponent were the counter itself
reconnectDelayOneTooMany(S) ==
    Min(S.reconnectInterval * Pow(2, S.reconnectAttempts),
        MAX_RECONNECT_INTERVAL)

\* the delay scheduleReconnect computes from the incremented counter
reconnectDelay(S) ==
    Min(S.reconnectInterval * Pow(2, S.reconnectAttempts - 1),
        MAX_RECONNECT_INTERVAL)

\* scheduleReconnect as it would be without its first line
scheduleReconnectUnguarded(S) ==
    LET S1 == [setState(S, "reconnecting") EXCEPT !.reconnectAttempts = @ + 1]
    IN  [S1 EXCEPT !.reconnectTimeout = TRUE,
                   !.reconnectTimers = @ + 1,
                   !.armed = Append(@, reconnectDelay(S1))]

scheduleReconnect(S) ==
    IF S.reconnectTimeout
    THEN S
    ELSE LET S1 == [setState(S, "reconnecting") EXCEPT
                       !.reconnectAttempts = @ + 1]
         IN  [S1 EXCEPT !.reconnectTimeout = TRUE,
                        !.reconnectTimers = @ + 1,
                        !.armed = Append(@, reconnectDelay(S1))]

\* resolve() or reject() of the promise of connect() attempt i: the first
\* settlement stands
settleConnect(S, i, how) ==
    IF S.conn[i].promise = "pending"
    THEN [S EXCEPT !.conn[i].promise = how]
    ELSE S

\* sendSubscription as it would be if it tested the socket handle only
sendSubscriptionChecksSocketOnly(S, action, subscriptionType, items, replay) ==
    IF S.ws = 0
    THEN [S EXCEPT !.thrown = "Not connected"]
    ELSE [pendingDelete(S, getSubscriptionKey(action, subscriptionType)) EXCEPT
            !.cmds = Append(@, [action |-> action,
                                subscriptionType |-> subscriptionType,
                                replay |-> replay, tracked |-> TRUE,
                                result |-> "pending", timer |-> TRUE]),
            !.sent = [type |-> action, subscriptionType |-> subscriptionType,
                      items |-> items]]

\* sendSubscription(command); replay says that resubscribe() awaits it
sendSubscription(S, action, subscriptionType, items, replay) ==
    IF S.ws = 0 \/ S.state # "connected"
    THEN [S EXCEPT !.thrown = "Not connected"]
    ELSE [pendingDelete(S, getSubscriptionKey(action, subscriptionType)) EXCEPT
            !.cmds = Append(@, [action |-> action,
                                subscriptionType |-> subscriptionType,
                                replay |-> replay, tracked |-> TRUE,
                                result |-> "pending", timer |-> TRUE]),
            !.sent = [type |-> action, subscriptionType |-> subscriptionType,
                      items |-> items]]

subscribeAll(S, replay) ==
    sendSubscription([S EXCEPT !.subscribedToAll = TRUE],
                     "subscribe", "all", <<>>, replay)

unsubscribeAll(S, replay) ==
    sendSubscription([S EXCEPT !.subscribedToAll = FALSE],
                     "unsubscribe", "all", <<>>, replay)

\* subscribeChannels as it would be if the registry were updated only once
\* the command is sent
subscribeChannelsAfterSend(S, channelIds, replay) ==
    LET T == sendSubscription(S, "subscribe", "channel", channelIds, replay)
    IN  IF T.thrown # "" THEN T
        ELSE [T EXCEPT !.channels = AddEach(@, channelIds)]

subscribeChannels(S, channelIds, replay) ==
    sendSubscription([S EXCEPT !.channels = AddEach(@, channelIds)],
                     "subscribe", "channel", channelIds, replay)

unsubscribeChannels(S, channelIds, replay) ==
    sendSubscription([S EXCEPT !.channels = DeleteEach(@, channelIds)],
                     "unsubscribe", "channel", channelIds, replay)

subscribeEventTypes(S, types, replay) ==
    sendSubscription([S EXCEPT !.eventTypes = AddEach(@, types)],
                     "subscribe", "event_type", types, replay)

unsubscribeEventTypes(S, types, replay) ==
    sendSubscription([S EXCEPT !.eventTypes = DeleteEach(@, types)],
                     "unsubscribe", "event_type", types, replay)

\* the catch block of resubscribe()
resubscribeCatch(S, error) ==
    [emitError(S, "Failed to resubscribe: Error: " \o error) EXCEPT !.thrown = ""]

\* one awaited call of resubscribe(): it threw, or resubscribe() waits on it
resubscribeAwait(S) ==
    IF S.thrown # "" THEN resubscribeCatch(S, S.thrown) ELSE S

resubscribeEventTypes(S) ==
    IF Len(S.eventTypes) > 0
    THEN resubscribeAwait(subscribeEventTypes(S, S.eventTypes, TRUE))
    ELSE S

resubscribeChannels(S) ==
    IF Len(S.channels) > 0
    THEN resubscribeAwait(subscribeChannels(S, S.channels, TRUE))
    ELSE resubscribeEventTypes(S)

\* resubscribe(), run by the open handler up to its first await
resubscribe(S) ==
    IF S.subscribedToAll
    THEN resubscribeAwait(subscribeAll(S, TRUE))
    ELSE resubscribeChannels(S)

\* resubscribe() goes on after the command it awaited, of type
\* subscriptionType, was settled
resubscribeResume(S, subscriptionType, how, error) ==
    IF how # "confirmed"
    THEN resubscribeCatch(S, error)
    ELSE CASE subscriptionType = "all" -> resubscribeChannels(S)
           [] subscriptionType = "channel" -> resubscribeEventTypes(S)
           [] OTHER -> S

\* resolve() or reject() of the promise of command c: result becomes
\* "confirmed" or the message of the error.  The first settlement stands,
\* and the resubscribe() that awaits the command goes on
settleCommand(S, c, how, error) ==
    IF S.cmds[c].result # "pending"
    THEN S
    ELSE LET T == [S EXCEPT !.cmds[c].result =
                                IF how = "confirmed" THEN "confirmed" ELSE error]
         IN  IF S.cmds[c].replay
             THEN resubscribeResume(T, S.cmds[c].subscriptionType, how, error)
             ELSE T

\* clearTimeout as it would be if the timer were left armed
clearTimeoutForgotten(S, c) == S

clearTimeout(S, c) == [S EXCEPT !.cmds[c].timer = FALSE]

----------------------------------------------------------------------------
(* Handlers: each is one task of the program. *)

\* connect() as it would be if its guard tested for connected only
connectGuardsConnected(S, viaTimer) ==
    IF S.state = "connected"
    THEN [S EXCEPT !.ret = IF viaTimer THEN "none" ELSE "connect: resolved"]
    ELSE IF FreeSlots(S.conn) = {}
    THEN [S EXCEPT !.full = TRUE]
    ELSE LET i == CHOOSE j \in FreeSlots(S.conn) :
                      \A k \in FreeSlots(S.conn) : j <= k
         IN  [setState(S, "connecting") EXCEPT
                !.conn[i] = [phase |-> "fetching", promise |-> "pending",
                             viaTimer |-> viaTimer],
                !.ret = IF viaTimer THEN "none" ELSE "connect: pending"]

\* connect() as it would be if it turned auto-reconnect on again
connectEnablesAutoReconnect(S, viaTimer) ==
    IF S.state = "connected" \/ S.state = "connecting"
    THEN [S EXCEPT !.ret = IF viaTimer THEN "none" ELSE "connect: resolved"]
    ELSE IF FreeSlots(S.conn) = {}
    THEN [S EXCEPT !.full = TRUE]
    ELSE LET i == CHOOSE j \in FreeSlots(S.conn) :
                      \A k \in FreeSlots(S.conn) : j <= k
         IN  [setState(S, "connecting") EXCEPT
                !.autoReconnect = TRUE,
                !.conn[i] = [phase |-> "fetching", promise |-> "pending",
                             viaTimer |-> viaTimer],
                !.ret = IF viaTimer THEN "none" ELSE "connect: pending"]

\* connect() as it would be if its guard took reconnecting for a connection
\* in progress
connectGuardsReconnecting(S, viaTimer) ==
    IF S.state \in {"connected", "connecting", "reconnecting"}
    THEN [S EXCEPT !.ret = IF viaTimer THEN "none" ELSE "connect: resolved"]
    ELSE IF FreeSlots(S.conn) = {}
    THEN [S EXCEPT !.full = TRUE]
    ELSE LET i == CHOOSE j \in FreeSlots(S.conn) :
                      \A k \in FreeSlots(S.conn) : j <= k
         IN  [setState(S, "connecting") EXCEPT
                !.conn[i] = [phase |-> "fetching", promise |-> "pending",
                             viaTimer |-> viaTimer],
                !.ret = IF viaTimer THEN "none" ELSE "connect: pending"]

\* connect(): the guard, the transition and the start of the token fetch
connect(S, viaTimer) ==
    IF S.state = "connected" \/ S.state = "connecting"
    THEN [S EXCEPT !.ret = IF viaTimer THEN "none" ELSE "connect: resolved"]
    ELSE IF FreeSlots(S.conn) = {}
    THEN [S EXCEPT !.full = TRUE]
    ELSE LET i == CHOOSE j \in FreeSlots(S.conn) :
                      \A k \in FreeSlots(S.conn) : j <= k
         IN  [setState(S, "connecting") EXCEPT
                !.conn[i] = [phase |-> "fetching", promise |-> "pending",
                             viaTimer |-> viaTimer],
                !.ret = IF viaTimer THEN "none" ELSE "connect: pending"]

\* the token arrived: the socket of attempt i is created
socketCreated(S, i) ==
    [S EXCEPT !.ws = i, !.conn[i].phase = "opening"]

\* the catch block of connect(): the token fetch (or the socket's
\* construction) threw
connectCatch(S, i) ==
    [settleConnect(setState(S, "disconnected"), i, "rejected") EXCEPT
        !.conn[i].phase = "failed"]

\* ws.onopen as it would be if it left the reconnect counter
onopenKeepsCounter(S, i) ==
    LET S1 == [setState(S, "connected") EXCEPT !.conn[i].phase = "open"]
        S2 == resubscribe(startHeartbeat(S1))
    IN  settleConnect(S2, i, "resolved")

\* ws.onopen of attempt i
onopen(S, i) ==
    LET S1 == [setState(S, "connected") EXCEPT
                 !.reconnectAttempts = 0, !.conn[i].phase = "open"]
        S2 == resubscribe(startHeartbeat(S1))
    IN  settleConnect(S2, i, "resolved")

\* ws.onclose as it would be without the return of its first branch
oncloseFallsThrough(S, i) ==
    LET S1 == [stopHeartbeat(S) EXCEPT !.ws = 0, !.conn[i].phase = "closed"]
        S2 == IF S1.state = "connecting"
              THEN settleConnect(S1, i, "rejected")
              ELSE S1
        S3 == setState(S2, "disconnected")
    IN  IF S3.autoReconnect /\ shouldReconnect(S3)
        THEN scheduleReconnect(S3)
        ELSE S3

\* ws.onclose of attempt i
onclose(S, i) ==
    LET S1 == [stopHeartbeat(S) EXCEPT !.ws = 0, !.conn[i].phase = "closed"]
    IN  IF S1.state = "connecting"
        THEN setState(settleConnect(S1, i, "rejected"), "disconnected")
        ELSE LET S2 == setState(S1, "disconnected")
             IN  IF S2.autoReconnect /\ shouldReconnect(S2)
                 THEN scheduleReconnect(S2)
                 ELSE S2

\* ws.onerror as it would be if an error also ended the connection
onerrorDisconnects(S, i) ==
    LET S1 == emitError(S, "WebSocket error")
    IN  IF S1.state = "connecting"
        THEN setState(settleConnect(S1, i, "rejected"), "disconnected")
        ELSE S1

\* ws.onerror of attempt i
onerror(S, i) ==
    LET S1 == emitError(S, "WebSocket error")
    IN  IF S1.state = "connecting"
        THEN settleConnect(S1, i, "rejected")
        ELSE S1

\* ws.close(1000, 'Client disconnect') on the socket of attempt i
socketClose(S, i) ==
    CASE S.conn[i].phase = "opening" -> [S EXCEPT !.conn[i].phase = "aborting"]
      [] S.conn[i].phase = "open" -> [S EXCEPT !.conn[i].phase = "closing"]
      [] OTHER -> S

\* disconnect() as it would be if it also forgot the subscriptions
disconnectClearsRegistry(S) ==
    LET S1 == stopHeartbeat(clearReconnectTimeout(
                  [S EXCEPT !.autoReconnect = FALSE]))
        S2 == IF S1.ws # 0
              THEN [socketClose(S1, S1.ws) EXCEPT !.ws = 0]
              ELSE S1
    IN  [setState(S2, "disconnected") EXCEPT
            !.ret = "disconnect: done",
            !.subscribedToAll = FALSE, !.channels = <<>>, !.eventTypes = <<>>]

disconnect(S) ==
    LET S1 == stopHeartbeat(clearReconnectTimeout(
                  [S EXCEPT !.autoReconnect = FALSE]))
        S2 == IF S1.ws # 0
              THEN [socketClose(S1, S1.ws) EXCEPT !.ws = 0]
              ELSE S1
    IN  [setState(S2, "disconnected") EXCEPT !.ret = "disconnect: done"]

\* what ws.ping does when the heartbeat calls it
Pings == {"absent", "sent", "throws"}

PingFrame == [type |-> "ping", subscriptionType |-> "", items |-> <<>>]

\* the callback of the heartbeat timer
heartbeatFired(S, ping) ==
    IF S.ws # 0 /\ S.state = "connected"
    THEN CASE ping = "absent" -> S
           [] ping = "sent" -> [S EXCEPT !.sent = PingFrame]
           [] ping = "throws" -> [S EXCEPT !.thrown = "ping failed"]
    ELSE S

\* nothing catches what a timer callback throws
uncaught(S) ==
    IF S.thrown # ""
    THEN [S EXCEPT !.ret = "uncaught: " \o S.thrown, !.thrown = ""]
    ELSE S

\* the callback of the reconnect timer
reconnectTimerFired(S) ==
    connect([S EXCEPT !.reconnectTimeout = FALSE, !.reconnectTimers = @ - 1],
            TRUE)

\* the timeout callback as it would be if it left the pending entry
subscriptionTimeoutKeepsEntry(S, c) ==
    settleCommand([S EXCEPT !.cmds[c].timer = FALSE], c, "timeout",
                  "Subscription timeout")

\* the timeout callback as it would be if it looked its command up in the
\* map and rejected what it found
subscriptionTimeoutIfTracked(S, c) ==
    IF S.cmds[c].tracked
    THEN LET S1 == [pendingDelete(S, KeyOf(S.cmds[c])) EXCEPT
                       !.cmds[c].timer = FALSE]
         IN  settleCommand(S1, c, "timeout", "Subscription timeout")
    ELSE [S EXCEPT !.cmds[c].timer = FALSE]

\* the callback of the timeout of command c
subscriptionTimeout(S, c) ==
    LET S1 == [pendingDelete(S, KeyOf(S.cmds[c])) EXCEPT !.cmds[c].timer = FALSE]
    IN  settleCommand(S1, c, "timeout", "Subscription timeout")

\* the frames a server can send
Frames ==
    [type : {"subscription_confirmed"}, action : Actions,
     subscriptionType : SubscriptionTypes, error : {""}]
    \cup
    [type : {"subscription_error"}, action : Actions,
     subscriptionType : SubscriptionTypes, error : {"", "denied"}]
    \cup
    [type : {"connected", "other", "malformed"}, action : {""},
     subscriptionType : {""}, error : {""}]

\* the frames that carry an event: message.data is the event, "" when the
\* frame has none.  The event is taken as a whole; the renaming of its
\* fields (lines 403-414) is not modelled
EventFrames == [type : {"event"}, data : {"", "e"}]

\* one listener is invoked with the event
invoke(S, handler, event) ==
    [S EXCEPT !.calls = Append(@, [handler |-> handler, event |-> event]),
              !.thrown = IF throws(handler) THEN "listener error" ELSE ""]

\* emitEvent as it would be without the try/catch around each listener
RECURSIVE emitEventToNoCatch(_, _, _)
emitEventToNoCatch(S, handlers, event) ==
    IF handlers = <<>> THEN S
    ELSE LET S1 == invoke(S, Head(handlers), event)
         IN  IF S1.thrown # "" THEN S1
             ELSE emitEventToNoCatch(S1, Tail(handlers), event)

emitEventNoCatch(S, event) == emitEventToNoCatch(S, S.eventHandlers, event)

\* the loop of emitEvent over the listeners that are left
RECURSIVE emitEventTo(_, _, _)
emitEventTo(S, handlers, event) ==
    IF handlers = <<>> THEN S
    ELSE LET S1 == invoke(S, Head(handlers), event)
             \* catch: console.error, and on with the next listener
             S2 == [S1 EXCEPT !.thrown = ""]
         IN  emitEventTo(S2, Tail(handlers), event)

emitEvent(S, event) == emitEventTo(S, S.eventHandlers, event)

\* the try block of handleMessage as it would be if a confirmation were
\* settled without the test that an entry is held (line 388)
handleMessageTryUnguarded(S, message) ==
    CASE message.type = "malformed" ->
            [S EXCEPT !.thrown = "SyntaxError"]
      [] message.type = "connected" -> S
      [] message.type \in {"subscription_confirmed", "subscription_error"} ->
            LET key == getSubscriptionKey(message.action, message.subscriptionType)
                pending == pendingGet(S, key)
            IN  IF pending # 0
                THEN LET S1 == clearTimeout(pendingDelete(S, key), pending)
                     IN  IF message.type = "subscription_error"
                         THEN settleCommand(S1, pending, "rejected",
                                  IF message.error # "" THEN message.error
                                  ELSE "Subscription failed")
                         ELSE settleCommand(S1, pending, "confirmed", "")
                ELSE [S EXCEPT !.thrown = "TypeError"]
      [] message.type = "event" ->
            IF message.data # "" THEN emitEvent(S, message.data) ELSE S
      [] OTHER -> S

\* the try block of handleMessage
handleMessageTry(S, message) ==
    CASE message.type = "malformed" ->
            [S EXCEPT !.thrown = "SyntaxError"]
      [] message.type = "connected" -> S
      [] message.type \in {"subscription_confirmed", "subscription_error"} ->
            LET key == getSubscriptionKey(message.action, message.subscriptionType)
                pending == pendingGet(S, key)
            IN  IF pending # 0
                THEN LET S1 == clearTimeout(pendingDelete(S, key), pending)
                     IN  IF message.type = "subscription_error"
                         THEN settleCommand(S1, pending, "rejected",
                                  IF message.error # "" THEN message.error
                                  ELSE "Subscription failed")
                         ELSE settleCommand(S1, pending, "confirmed", "")
                ELSE S
      [] message.type = "event" ->
            IF message.data # "" THEN emitEvent(S, message.data) ELSE S
      [] OTHER -> S

\* handleMessage as it would be without its catch
handleMessageNoCatch(S, message) == handleMessageTry(S, message)

\* handleMessage: what the try block throws is reported as a parse failure
handleMessage(S, message) ==
    LET T == handleMessageTry(S, message)
    IN  IF T.thrown # ""
        THEN emitError([T EXCEPT !.thrown = ""],
                       "Failed to parse message: " \o T.thrown)
        ELSE T

\* onEvent(handler)
onEvent(S, handler) == [S EXCEPT !.eventHandlers = SetAdd(@, handler)]

\* the function onEvent(handler) returned
offEvent(S, handler) == [S EXCEPT !.eventHandlers = SetDelete(@, handler)]

\* onStateChange(handler)
onStateChange(S, handler) == [S EXCEPT !.stateHandlers = SetAdd(@, handler)]

\* the error listeners are not kept by the model
removeAllHandlers(S) ==
    [S EXCEPT !.eventHandlers = <<>>, !.stateHandlers = <<>>]

\* the result of a public subscribe or unsubscribe call
returned(S) ==
    IF S.thrown # ""
    THEN [S EXCEPT !.ret = S.thrown, !.thrown = ""]
    ELSE [S EXCEPT !.ret = "sent"]

\* Promise.all over the promises of the two calls: thrown1 and thrown2 are
\* the rejections the calls made at once ("" for none), and the first one
\* rejects the whole
promiseAll(S, thrown1, thrown2) ==
    [S EXCEPT !.thrown = IF thrown1 # "" THEN thrown1 ELSE thrown2]

\* subscribe(options) as it would be without its test for no promise
subscribeUnchecked(S, options) ==
    LET S1 == IF hasLength(options.channels)
              THEN subscribeChannels(S, options.channels.items, FALSE)
              ELSE S
        S2 == IF hasLength(options.eventTypes)
              THEN subscribeEventTypes([S1 EXCEPT !.thrown = ""],
                                       options.eventTypes.items, FALSE)
              ELSE [S1 EXCEPT !.thrown = ""]
    IN  promiseAll(S2, S1.thrown, S2.thrown)

\* subscribe(options): a call that throws at once gives a rejected promise,
\* so the second call is made whatever the first did
subscribe(S, options) ==
    LET S1 == IF hasLength(options.channels)
              THEN subscribeChannels(S, options.channels.items, FALSE)
              ELSE S
        S2 == IF hasLength(options.eventTypes)
              THEN subscribeEventTypes([S1 EXCEPT !.thrown = ""],
                                       options.eventTypes.items, FALSE)
              ELSE [S1 EXCEPT !.thrown = ""]
    IN  IF ~hasLength(options.channels) /\ ~hasLength(options.eventTypes)
        THEN [S2 EXCEPT !.thrown =
                 "Must specify at least one channel or event type"]
        ELSE promiseAll(S2, S1.thrown, S2.thrown)

unsubscribe(S, options) ==
    LET S1 == IF hasLength(options.channels)
              THEN unsubscribeChannels(S, options.channels.items, FALSE)
              ELSE S
        S2 == IF hasLength(options.eventTypes)
              THEN unsubscribeEventTypes([S1 EXCEPT !.thrown = ""],
                                         options.eventTypes.items, FALSE)
              ELSE [S1 EXCEPT !.thrown = ""]
    IN  promiseAll(S2, S1.thrown, S2.thrown)

\* the result of a subscribe(options) or unsubscribe(options) call; sent
\* holds the last of the frames the call sent
returnedAll(S) ==
    IF S.thrown # ""
    THEN [S EXCEPT !.ret = S.thrown, !.thrown = ""]
    ELSE [S EXCEPT !.ret = IF S.sent = NoFrame THEN "nothing to do"
                           ELSE "sent all"]

----------------------------------------------------------------------------
(* The HTTP client (class HttpClient, src/src/resources/voice/numbers.ts).  *)
(* One request() is in progress at a time; its steps are the answer of one  *)
(* attempt (what fetch gave, up to the next await of request()) and the end *)
(* of one sleep.                                                            *)

\* a JavaScript number, NaN or undefined
Number(n) == [kind |-> "number", value |-> n]
NaN == [kind |-> "NaN", value |-> 0]
Undefined == [kind |-> "undefined", value |-> 0]

DecimalDigits == <<"0", "1", "2", "3", "4", "5", "6", "7", "8", "9">>
isDigit(char) == \E d \in 1..Len(DecimalDigits) : DecimalDigits[d] = char
digitValue(char) ==
    (CHOOSE d \in 1..Len(DecimalDigits) : DecimalDigits[d] = char) - 1

\* the string without its leading white space
RECURSIVE trimStart(_)
trimStart(chars) ==
    IF chars # <<>> /\ Head(chars) = " " THEN trimStart(Tail(chars)) ELSE chars

\* the value of the longest prefix of digits, after the digits read as acc
RECURSIVE parseDigits(_, _)
parseDigits(chars, acc) ==
    IF chars = <<>> \/ ~isDigit(Head(chars))
    THEN acc
    ELSE parseDigits(Tail(chars), 10 * acc + digitValue(Head(chars)))

\* parseInt(chars, 10): white space, a sign, the longest prefix of digits;
\* NaN if there is no digit
parseInt(chars) ==
    LET t == trimStart(chars)
        signed == t # <<>> /\ Head(t) \in {"-", "+"}
        digits == IF signed THEN Tail(t) ELSE t
    IN  IF digits = <<>> \/ ~isDigit(Head(digits))
        THEN NaN
        ELSE IF signed /\ Head(t) = "-"
        THEN Number(0 - parseDigits(digits, 0))
        ELSE Number(parseDigits(digits, 0))

\* response.headers.get('Retry-After'): null, or the characters of the value
Null == [present |-> FALSE, value |-> <<>>]
Header(chars) == [present |-> TRUE, value |-> chars]
RetryAfterHeaders ==
    {Null, Header(<<"0">>), Header(<<"2">>), Header(<<"1", "0">>),
     Header(<<"s", "o", "o", "n">>)}
\* a header is truthy if it is there and not empty
truthy(header) == header.present /\ header.value # <<>>

\* the statuses the server answers with: the cases of handleErrorResponse
\* and the values next to them
Statuses ==
    {200, 204, 302, 399, 400, 401, 402, 403, 404, 405, 428, 429, 430, 499,
     500, 503, 599}
ok(status) == status >= 200 /\ status <= 299

\* what one attempt gets: a response (json says that the body parses), or
\* an exception of fetch
Response(status, header, json) ==
    [type |-> "response", status |-> status, retryAfter |-> header,
     json |-> json, name |-> "", message |-> ""]
Failure(name, message) ==
    [type |-> "failure", status |-> 0, retryAfter |-> Null, json |-> FALSE,
     name |-> name, message |-> message]
Responses ==
    {Response(status, header, TRUE) :
        status \in Statuses, header \in RetryAfterHeaders}
        \cup {Response(200, Null, FALSE)}
Failures ==
    {Failure("TypeError", "fetch failed"), Failure("TypeError", "Load failed"),
     Failure("AbortError", "This operation was aborted"),
     Failure("Error", "socket hang up")}
Answers == Responses \cup Failures

\* Math.random() * 1000
Jitters == {0, 500, 999}

\* an error object
Err(name, message, statusCode, retryAfter, cause) ==
    [name |-> name, message |-> message, statusCode |-> statusCode,
     retryAfter |-> retryAfter, cause |-> cause]
NoError == Err("", "", 0, Undefined, "")
APIErrors ==
    {"APIError", "AuthenticationError", "AuthorizationError", "NotFoundError",
     "ValidationError", "RateLimitError", "ServerError"}
\* error instanceof APIError
isAPIError(error) == error.name \in APIErrors

\* handleErrorResponse as it would be if it tested for 5xx before the cases
handleErrorResponseServerFirst(response) ==
    IF response.status >= 400
    THEN Err("ServerError", "", response.status, Undefined, "")
    ELSE Err("APIError", "", response.status, Undefined, "")

handleErrorResponse(response) ==
    CASE response.status = 400 ->
            Err("ValidationError", "", 400, Undefined, "")
      [] response.status = 401 ->
            Err("AuthenticationError", "", 401, Undefined, "")
      [] response.status = 403 ->
            Err("AuthorizationError", "", 403, Undefined, "")
      [] response.status = 404 ->
            Err("NotFoundError", "", 404, Undefined, "")
      [] response.status = 429 ->
            Err("RateLimitError", "", 429,
                parseInt(IF truthy(response.retryAfter)
                         THEN response.retryAfter.value
                         ELSE <<"6", "0">>), "")
      [] OTHER ->
            IF response.status >= 500
            THEN Err("ServerError", "", response.status, Undefined, "")
            ELSE Err("APIError", "", response.status, Undefined, "")

\* calculateBackoff(attempt), random being Math.random() * 1000
calculateBackoff(attempt, random) ==
    Min(1000 * Pow(2, attempt), 30000) + random

\* getRetryAfter as it would be if it took the header for milliseconds
getRetryAfterInMs(response, attempt, random) ==
    LET retryAfter == parseInt(response.retryAfter.value)
    IN  IF truthy(response.retryAfter) /\ retryAfter.kind # "NaN"
        THEN retryAfter.value
        ELSE calculateBackoff(attempt, random)

getRetryAfter(response, attempt, random) ==
    LET retryAfter == parseInt(response.retryAfter.value)
    IN  IF truthy(response.retryAfter) /\ retryAfter.kind # "NaN"
        THEN retryAfter.value * 1000
        ELSE calculateBackoff(attempt, random)

\* the ends of one attempt
returns(H, value) ==
    [H EXCEPT !.phase = "returned",
              !.outcome = [value |-> value, error |-> NoError]]
raises(H, error) ==
    [H EXCEPT !.phase = "raised",
              !.outcome = [value |-> "", error |-> error]]
sleep(H, ms) == [H EXCEPT !.phase = "sleeping", !.slept = ms]

\* executeRequest: what the try block of request() gets from it, a response
\* or the exception thrown
executeRequest(answer) ==
    IF answer.type = "failure" /\ answer.name = "AbortError"
    THEN Failure("TimeoutError", "Request timed out")
    ELSE answer

\* error.message.includes('fetch'), for the messages of Failures
includesFetch(message) == message = "fetch failed"

\* the catch block of request() as it would be if it retried API errors too
requestCatchRetriesAll(H, error, random) ==
    LET H1 == [H EXCEPT !.lastError = error]
    IN  IF H1.attempt < H1.maxRetries
        THEN sleep(H1, calculateBackoff(H1.attempt, random))
        ELSE IF error.name = "TypeError" /\ includesFetch(error.message)
        THEN raises(H1, Err("NetworkError", "Failed to connect to API", 0,
                            Undefined, error.name))
        ELSE raises(H1, error)

\* the catch block of request()
requestCatch(H, error, random) ==
    IF isAPIError(error)
    THEN raises(H, error)
    ELSE LET H1 == [H EXCEPT !.lastError = error]
         IN  IF H1.attempt < H1.maxRetries
             THEN sleep(H1, calculateBackoff(H1.attempt, random))
             ELSE IF error.name = "TypeError"
                        /\ includesFetch(error.message)
             THEN raises(H1, Err("NetworkError", "Failed to connect to API",
                                 0, Undefined, error.name))
             ELSE raises(H1, error)

\* the branch of request() for a response that is not ok, as it would be if
\* it did not test the attempts that remain
notOkIgnoresAttempts(H, response, random) ==
    LET error == handleErrorResponse(response)
        retryAfter == getRetryAfter(response, H.attempt, random)
    IN  IF (response.status >= 500 \/ response.status = 429)
              /\ retryAfter > 0
        THEN sleep(H, retryAfter)
        ELSE requestCatch(H, error, random)

\* the branch of request() for a response that is not ok
notOk(H, response, random) ==
    LET error == handleErrorResponse(response)
        retryAfter == getRetryAfter(response, H.attempt, random)
    IN  IF (response.status >= 500 \/ response.status = 429)
              /\ H.attempt < H.maxRetries /\ retryAfter > 0
        THEN sleep(H, retryAfter)
        ELSE requestCatch(H, error, random)

\* one turn of the loop of request(), from the answer of executeRequest to
\* the return, the throw or the sleep
attempted(H, answer, random) ==
    LET got == executeRequest(answer)
        H1 == [H EXCEPT !.statuses = @ \cup {got.status}]
    IN  IF got.type = "failure"
        THEN requestCatch(H1, Err(got.name, got.message, 0, Undefined, ""),
                          random)
        ELSE IF ~ok(got.status)
        THEN notOk(H1, got, random)
        ELSE IF got.status = 204
        THEN returns(H1, "undefined")
        ELSE IF got.json
        THEN returns(H1, "payload")
        ELSE requestCatch(H1, Err("SyntaxError", "Unexpected token", 0,
                                  Undefined, ""), random)

\* the test of the loop of request(): the next attempt, or the throw after
\* the loop
while(H) ==
    IF H.attempt <= H.maxRetries
    THEN [H EXCEPT !.phase = "executing", !.fetches = @ + 1]
    ELSE raises(H, IF H.lastError # NoError
                   THEN H.lastError
                   ELSE Err("NetworkError", "Request failed after retries",
                            0, Undefined, ""))

\* request(options), up to the first executeRequest
request(H) ==
    while([H EXCEPT !.attempt = 0, !.lastError = NoError, !.fetches = 0,
                    !.statuses = {}, !.slept = 0,
                    !.outcome = [value |-> "", error |-> NoError]])

\* the end of the sleep as it would be without attempt++
sleptKeepsAttempt(H) == while([H EXCEPT !.slept = 0])

\* the sleep is over: attempt++ and continue
slept(H) == while([H EXCEPT !.attempt = @ + 1, !.slept = 0])

\* new HttpClient(config)
HttpClient(maxRetries) ==
    [phase |-> "idle", maxRetries |-> maxRetries, attempt |-> 0,
     lastError |-> NoError, fetches |-> 0, statuses |-> {}, slept |-> 0,
     outcome |-> [value |-> "", error |-> NoError]]

----------------------------------------------------------------------------
(* The state after construction. *)

\* the instance constructed with one of intervals as reconnectInterval, the
\* reconnect counter being one of attempts
Constructed(intervals, attempts) ==
    /\ state = "disconnected"
    /\ ws = 0
    /\ reconnectAttempts \in attempts
    /\ reconnectTimeout = FALSE
    /\ heartbeatInterval = FALSE
    /\ autoReconnect \in BOOLEAN
    /\ maxReconnectAttempts \in MaxReconnectAttemptsChoices
    /\ subscribedToAll = FALSE
    /\ channels = <<>>
    /\ eventTypes = <<>>
    /\ conn = NoAttempts(MaxConn)
    /\ cmds = <<>>
    /\ ret = "none"
    /\ sent = NoFrame
    /\ emitted = <<>>
    /\ eventHandlers = <<>>
    /\ calls = <<>>
    /\ stateHandlers = <<>>
    /\ stateCalls = <<>>
    /\ reconnectTimers = 0
    /\ reconnectInterval \in intervals
    /\ armed = <<>>
    /\ heartbeatTimers = 0

Init ==
    /\ Constructed({DEFAULT_RECONNECT_INTERVAL}, {0})
    /\ http = HttpClient(DEFAULT_MAX_RETRIES)

----------------------------------------------------------------------------
(* Actions.  n bounds the commands in flight after the step; args are the  *)
(* arrays the caller passes.                                               *)

Connect == Becomes(connect(Cur, FALSE), Len(cmds))

Disconnect == Becomes(disconnect(Cur), Len(cmds))

TokenFetched ==
    \E i \in DOMAIN conn :
        /\ conn[i].phase = "fetching"
        /\ Becomes(socketCreated(Cur, i), Len(cmds))

TokenFailed ==
    \E i \in DOMAIN conn :
        /\ conn[i].phase = "fetching"
        /\ Becomes(connectCatch(Cur, i), Len(cmds))

SocketOpen(n) ==
    \E i \in DOMAIN conn :
        /\ conn[i].phase = "opening"
        /\ Becomes(onopen(Cur, i), n)

SocketClose ==
    \E i \in DOMAIN conn :
        /\ conn[i].phase \in {"opening", "open", "closing", "aborting"}
        /\ Becomes(onclose(Cur, i), Len(cmds))

SocketError ==
    \E i \in DOMAIN conn :
        /\ conn[i].phase \in {"opening", "open", "closing", "aborting"}
        /\ Becomes(onerror(Cur, i), Len(cmds))

\* a frame arrives on a socket that is open, or closing after it was open
SocketMessage(n) ==
    /\ \E i \in DOMAIN conn : conn[i].phase \in {"open", "closing"}
    /\ \E message \in Frames : Becomes(handleMessage(Cur, message), n)

ReconnectTimer ==
    /\ reconnectTimers > 0
    /\ Becomes(reconnectTimerFired(Cur), Len(cmds))

\* the heartbeat timer fires
HeartbeatTimer ==
    /\ heartbeatTimers > 0
    /\ \E ping \in Pings : Becomes(uncaught(heartbeatFired(Cur, ping)), Len(cmds))

\* timers of equal delay fire in the order they were armed
SubscriptionTimer ==
    \E c \in 1..Len(Cur.cmds) :
        /\ Cur.cmds[c].timer
        /\ \A d \in 1..(c - 1) : ~Cur.cmds[d].timer
        /\ Becomes(subscriptionTimeout(Cur, c), Len(cmds))

SubscribeAll(n) == Becomes(returned(subscribeAll(Cur, FALSE)), n)

UnsubscribeAll(n) == Becomes(returned(unsubscribeAll(Cur, FALSE)), n)

SubscribeChannels(n, args) ==
    \E ids \in args :
        Becomes(returned(subscribeChannels(Cur, ids, FALSE)), n)

UnsubscribeChannels(n, args) ==
    \E ids \in args :
        Becomes(returned(unsubscribeChannels(Cur, ids, FALSE)), n)

SubscribeEventTypes(n) ==
    \E ts \in EventTypeArgs :
        Becomes(returned(subscribeEventTypes(Cur, ts, FALSE)), n)

UnsubscribeEventTypes(n) ==
    \E ts \in EventTypeArgs :
        Becomes(returned(unsubscribeEventTypes(Cur, ts, FALSE)), n)

Subscribe(n) ==
    \E options \in OptionArgs : Becomes(returnedAll(subscribe(Cur, options)), n)

Unsubscribe(n) ==
    \E options \in OptionArgs :
        Becomes(returnedAll(unsubscribe(Cur, options)), n)

\* an event frame arrives on a socket that is open, or closing after it was
\* open
SocketEvent ==
    /\ \E i \in DOMAIN conn : conn[i].phase \in {"open", "closing"}
    /\ \E message \in EventFrames :
          Becomes(handleMessage(Cur, message), Len(cmds))

OnEvent == \E handler \in Handlers : Becomes(onEvent(Cur, handler), Len(cmds))

OffEvent ==
    \E handler \in Handlers :
        /\ handler \in Range(eventHandlers)
        /\ Becomes(offEvent(Cur, handler), Len(cmds))

RemoveAllHandlers == Becomes(removeAllHandlers(Cur), Len(cmds))

OnStateChange ==
    \E handler \in StateHandlers :
        Becomes(onStateChange(Cur, handler), Len(cmds))

\* onStateChange(handler), by a caller with several listeners
OnStateChangeAny ==
    \E handler \in Listeners :
        Becomes(onStateChange(Cur, handler), Len(cmds))

\* scheduleReconnect(), as it is called when reconnects fail in a row
ScheduleReconnect ==
    /\ reconnectAttempts < MaxAttempts
    /\ Becomes(scheduleReconnect(Cur), Len(cmds))

\* connect() by a caller who does not use the instance again after
\* disconnect()
ConnectFresh == autoReconnect /\ Connect

\* the variables of the real-time client
realtime ==
    <<state, ws, reconnectAttempts, reconnectTimeout, heartbeatInterval,
      autoReconnect, maxReconnectAttempts, subscribedToAll, channels,
      eventTypes, conn, cmds, ret, sent, emitted, eventHandlers,
      calls, stateHandlers, stateCalls, reconnectTimers,
      reconnectInterval, armed, heartbeatTimers>>

\* request(options) is called when no request is in progress
Request ==
    /\ http.phase \in {"idle", "returned", "raised"}
    /\ http' = request(http)
    /\ UNCHANGED realtime

\* the attempt in progress gets its answer
Attempted ==
    /\ http.phase = "executing"
    /\ \E answer \in Answers, random \in Jitters :
          http' = attempted(http, answer, random)
    /\ UNCHANGED realtime

Slept ==
    /\ http.phase = "sleeping"
    /\ http' = slept(http)
    /\ UNCHANGED realtime

----------------------------------------------------------------------------
(* Specifications.                                                          *)
(*                                                                          *)
(* Spec is the client with every operation.  The specifications that       *)
(* are checked are parts of it, each with the callers of one use:           *)
(*   SpecConn  the connection life cycle: every interleaving of connect(),  *)
(*             disconnect(), token fetches, socket events and timers, by a  *)
(*             caller who makes no subscription call;                       *)
(*   SpecAuto  the same by a client configured with auto-reconnect;         *)
(*   SpecState the same with state listeners;                               *)
(*   SpecNotify  the life cycle with several state listeners, by a caller   *)
(*             who does not call connect() again after disconnect();        *)
(*   SpecBeat  the life cycle with the heartbeat timer firing;              *)
(*   SpecDelay the delay of the reconnect timer, as a function of the       *)
(*             counter and of config.reconnectInterval;                     *)
(*   SpecHttp  the requests of the HTTP client, for every maxRetries;       *)
(*   SpecHttpFair  SpecHttp with every fetch answered and every sleep over; *)
(*   SpecSub   the six subscription operations, their confirmations and     *)
(*             timeouts and the replay after a reconnection, by a caller    *)
(*             who does not call connect() again after disconnect() and     *)
(*             passes the two channel ids in one array;                     *)
(*   SpecKey   commands of one key in flight together: as SpecSub, with     *)
(*             the two channel operations only, on arrays of one id;        *)
(*   SpecKeyFair  SpecKey with the 10-second timers firing;                 *)
(*   SpecOpt   as SpecSub, with subscribe(options) and                      *)
(*             unsubscribe(options) only;                                   *)
(*   SpecListen  the connection life cycle of SpecSub with event listeners  *)
(*             and event frames, and no subscription call.                  *)

Next ==
    \/ Connect
    \/ Disconnect
    \/ TokenFetched
    \/ TokenFailed
    \/ SocketOpen(MaxSameKey)
    \/ SocketClose
    \/ SocketError
    \/ SocketMessage(MaxSameKey)
    \/ ReconnectTimer
    \/ SubscriptionTimer
    \/ SubscribeAll(MaxSameKey)
    \/ UnsubscribeAll(MaxSameKey)
    \/ SubscribeChannels(MaxSameKey, ChannelArgs)
    \/ UnsubscribeChannels(MaxSameKey, ChannelArgs)
    \/ SubscribeEventTypes(MaxSameKey)
    \/ UnsubscribeEventTypes(MaxSameKey)
    \/ Subscribe(MaxSameKey)
    \/ Unsubscribe(MaxSameKey)
    \/ SocketEvent
    \/ OnEvent
    \/ OffEvent
    \/ RemoveAllHandlers
    \/ OnStateChange
    \/ OnStateChangeAny
    \/ HeartbeatTimer
    \/ Request
    \/ Attempted
    \/ Slept

Spec == Init /\ [][Next]_vars

NextConn ==
    \/ Connect
    \/ Disconnect
    \/ TokenFetched
    \/ TokenFailed
    \/ SocketOpen(0)
    \/ SocketClose
    \/ SocketError
    \/ SocketMessage(0)
    \/ ReconnectTimer

SpecConn == Init /\ [][NextConn]_vars

NextBeat ==
    \/ Connect
    \/ Disconnect
    \/ TokenFetched
    \/ TokenFailed
    \/ SocketOpen(0)
    \/ SocketClose
    \/ SocketError
    \/ ReconnectTimer
    \/ HeartbeatTimer

SpecBeat == Init /\ [][NextBeat]_vars

\* auto-reconnect on, with a limited budget as by default
InitSub == Init /\ autoReconnect /\ maxReconnectAttempts # 0

\* the same by a client configured with auto-reconnect, so that
\* auto-reconnect is off only after disconnect()
SpecAuto == InitSub /\ [][NextConn]_vars

\* the backoff: scheduleReconnect() on every value of the counter and of
\* reconnectInterval, the timer, and the attempt it starts, which fails
InitDelay ==
    /\ Constructed(ReconnectIntervals, 0..(MaxAttempts - 1))
    /\ http = HttpClient(DEFAULT_MAX_RETRIES)
    /\ autoReconnect
    /\ maxReconnectAttempts = 0

NextDelay ==
    \/ ScheduleReconnect
    \/ ReconnectTimer
    \/ TokenFailed

SpecDelay == InitDelay /\ [][NextDelay]_vars

\* the HTTP client, for every value of maxRetries
InitHttp ==
    /\ Constructed({DEFAULT_RECONNECT_INTERVAL}, {0})
    /\ autoReconnect
    /\ maxReconnectAttempts # 0
    /\ http \in {HttpClient(maxRetries) : maxRetries \in 0..MaxRetries}

NextHttp ==
    \/ Request
    \/ Attempted
    \/ Slept

SpecHttp == InitHttp /\ [][NextHttp]_vars

\* every fetch is answered or aborted by its timeout, and every sleep ends
SpecHttpFair == SpecHttp /\ WF_vars(Attempted) /\ WF_vars(Slept)

NextState ==
    \/ Connect
    \/ Disconnect
    \/ TokenFetched
    \/ TokenFailed
    \/ SocketOpen(0)
    \/ SocketClose
    \/ SocketError
    \/ SocketMessage(0)
    \/ ReconnectTimer
    \/ OnStateChange
    \/ RemoveAllHandlers

SpecState == Init /\ [][NextState]_vars

NextNotify ==
    \/ ConnectFresh
    \/ Disconnect
    \/ TokenFetched
    \/ TokenFailed
    \/ SocketOpen(0)
    \/ SocketClose
    \/ SocketError
    \/ ReconnectTimer
    \/ OnStateChangeAny
    \/ RemoveAllHandlers

SpecNotify == Init /\ [][NextNotify]_vars

NextSub ==
    \/ ConnectFresh
    \/ Disconnect
    \/ TokenFetched
    \/ TokenFailed
    \/ SocketOpen(MaxCmds)
    \/ SocketClose
    \/ SocketError
    \/ SocketMessage(MaxCmds)
    \/ ReconnectTimer
    \/ SubscriptionTimer
    \/ SubscribeAll(MaxCmds)
    \/ UnsubscribeAll(MaxCmds)
    \/ SubscribeChannels(MaxCmds, ChannelPairs)
    \/ UnsubscribeChannels(MaxCmds, ChannelPairs)
    \/ SubscribeEventTypes(MaxCmds)
    \/ UnsubscribeEventTypes(MaxCmds)

SpecSub == InitSub /\ [][NextSub]_vars

NextKey ==
    \/ ConnectFresh
    \/ Disconnect
    \/ TokenFetched
    \/ TokenFailed
    \/ SocketOpen(MaxSameKey)
    \/ SocketClose
    \/ SocketError
    \/ SocketMessage(MaxSameKey)
    \/ ReconnectTimer
    \/ SubscriptionTimer
    \/ SubscribeChannels(MaxSameKey, ChannelSingles)
    \/ UnsubscribeChannels(MaxSameKey, ChannelSingles)

SpecKey == InitSub /\ [][NextKey]_vars

\* the same, with the timers of the commands firing when they are due
SpecKeyFair == SpecKey /\ WF_vars(SubscriptionTimer)

NextOpt ==
    \/ ConnectFresh
    \/ Disconnect
    \/ TokenFetched
    \/ TokenFailed
    \/ SocketOpen(MaxOpt)
    \/ SocketClose
    \/ SocketError
    \/ SocketMessage(MaxOpt)
    \/ ReconnectTimer
    \/ SubscriptionTimer
    \/ Subscribe(MaxOpt)
    \/ Unsubscribe(MaxOpt)

SpecOpt == InitSub /\ [][NextOpt]_vars

NextListen ==
    \/ ConnectFresh
    \/ Disconnect
    \/ TokenFetched
    \/ TokenFailed
    \/ SocketOpen(0)
    \/ SocketClose
    \/ SocketError
    \/ SocketMessage(0)
    \/ SocketEvent
    \/ ReconnectTimer
    \/ OnEvent
    \/ OffEvent
    \/ RemoveAllHandlers

SpecListen == InitSub /\ [][NextListen]_vars

----------------------------------------------------------------------------
(* Properties of the connection life cycle, under SpecConn. *)

\* the step is a connect() call of a caller
ConnectCalled == ret' \in {"connect: resolved", "connect: pending"}

\* the socket of attempt i had been created and its close event is handled
\* in the step
Closes(i) ==
    /\ conn[i].phase \in {"opening", "open", "closing", "aborting"}
    /\ conn'[i].phase = "closed"

\* C1: connect() called while the state is connected or connecting changes
\* nothing: the state and the socket handle stay, no attempt is started (no
\* token is fetched, no socket is opened), and the call resolves at once.
C1_ConnectIdempotent ==
    [][(ConnectCalled /\ state \in {"connected", "connecting"}) =>
          /\ state' = state
          /\ ws' = ws
          /\ conn' = DropEnded(conn)
          /\ reconnectAttempts' = reconnectAttempts
          /\ reconnectTimeout' = reconnectTimeout
          /\ ret' = "connect: resolved"]_vars

\* connect() was called a second time while the first attempt was still
\* fetching its token, and there is one attempt
C1_Witness ==
    /\ state = "connecting"
    /\ ret = "connect: resolved"
    /\ Cardinality({i \in DOMAIN conn : conn[i].phase \in Live}) = 1

\* C2 as claimed: once disconnect() was called (auto-reconnect is off from
\* then on), the state stays disconnected and no reconnect timer is armed
\* until a caller calls connect().
C2_DisconnectFinal ==
    [][(~autoReconnect /\ state = "disconnected" /\ ~reconnectTimeout
            /\ ~ConnectCalled) =>
          (state' = "disconnected" /\ ~reconnectTimeout')]_vars

\* C3 as claimed: when the client's open socket closes while the state is
\* connected, a reconnect is scheduled (state reconnecting, timer armed) if
\* auto-reconnect is on and the budget remains, and otherwise the state is
\* disconnected and no timer is armed.
C3_CloseWhileConnected ==
    [][\A i \in DOMAIN conn :
          (state = "connected" /\ ws = i /\ conn[i].phase = "open" /\ Closes(i)) =>
              IF autoReconnect /\ shouldReconnect(Cur)
              THEN state' = "reconnecting" /\ reconnectTimeout'
              ELSE state' = "disconnected" /\ ~reconnectTimeout']_vars

\* C4 as claimed: when a connect() attempt started by the reconnect timer
\* fails (its token fetch fails, or its socket closes before it opened)
\* while auto-reconnect is on and the budget remains, a further reconnect is
\* scheduled.
C4_ReconnectGoesOn ==
    [][\A i \in DOMAIN conn :
          (/\ conn[i].viaTimer
           /\ \/ conn[i].phase = "fetching" /\ conn'[i].phase = "failed"
              \/ conn[i].phase = "opening" /\ conn'[i].phase = "closed"
           /\ autoReconnect /\ shouldReconnect(Cur)) =>
              reconnectTimeout']_vars

\* the step is a disconnect() call
DisconnectCalled == ret' = "disconnect: done"

\* C15: in every state, disconnect() leaves the state disconnected,
\* auto-reconnect off, no reconnect timer, no heartbeat timer and no socket
\* handle, and a socket that was held is closed by the client (close(1000));
\* a second disconnect() right after it changes nothing and calls no state
\* listener.  The same is true of every step that is a disconnect() call.
C15_Disconnect ==
    /\ [](LET S == Cur
              D == disconnect(S)
              E == disconnect([D EXCEPT !.stateCalls = <<>>])
          IN  /\ D.state = "disconnected"
              /\ ~D.autoReconnect
              /\ ~D.reconnectTimeout
              /\ ~D.heartbeatInterval
              /\ D.ws = 0
              /\ S.ws # 0 =>
                    D.conn[S.ws].phase =
                        IF S.conn[S.ws].phase = "open" THEN "closing"
                                                       ELSE "aborting"
              /\ E = [D EXCEPT !.stateCalls = <<>>])
    /\ [][DisconnectCalled =>
            /\ state' = "disconnected"
            /\ ~autoReconnect'
            /\ ~reconnectTimeout'
            /\ ~heartbeatInterval'
            /\ ws' = 0
            /\ ws # 0 => conn'[ws].phase \in {"closing", "aborting"}
            /\ ret = "disconnect: done" =>
                  /\ conn' = conn
                  /\ reconnectAttempts' = reconnectAttempts
                  /\ autoReconnect' = autoReconnect
                  /\ stateHandlers' = stateHandlers
                  /\ stateCalls' = <<>>]_vars

\* disconnect() closed the open socket of a connected client, and the state
\* listener was told
C15_Witness ==
    /\ ret = "disconnect: done"
    /\ stateCalls = <<[handler |-> 1, state |-> "disconnected",
                     observed |-> "disconnected"]>>
    /\ heartbeatInterval = FALSE
    /\ \E i \in DOMAIN conn : conn[i].phase = "closing"

\* C16: auto-reconnect, once off, stays off, whatever is called later; while
\* it is off no reconnect timer is armed and the state is not reconnecting;
\* and when a socket closes while it is off (the connection of a later
\* connect() that succeeded is lost), the state is disconnected after the
\* close and the reconnect counter is not incremented.
C16_AutoReconnectStaysOff ==
    /\ [][(~autoReconnect) => ~autoReconnect']_vars
    /\ [](~autoReconnect => (~reconnectTimeout /\ state # "reconnecting"))
    /\ [][\A i \in DOMAIN conn :
            (~autoReconnect /\ Closes(i)) =>
                /\ state' = "disconnected"
                /\ ~reconnectTimeout'
                /\ reconnectAttempts' = reconnectAttempts]_vars

\* under SpecAuto: disconnect() closed a socket, which is still closing; a
\* connect() of the caller after it succeeded, and its connection is lost
C16_Witness ==
    /\ ~autoReconnect
    /\ state = "disconnected"
    /\ reconnectTimeout = FALSE
    /\ \E i, j \in DOMAIN conn :
          /\ conn[j].phase = "closing"
          /\ conn[i].phase = "closed"
          /\ conn[i].promise = "resolved"
          /\ ~conn[i].viaTimer

\* C17: when a socket that has not opened closes while the state is
\* connecting, the connect() of its attempt is rejected, the state is
\* disconnected after the close, the close arms no reconnect timer and the
\* reconnect counter is as before.
C17_CloseWhileConnecting ==
    [][\A i \in DOMAIN conn :
          (/\ state = "connecting"
           /\ conn[i].phase \in {"opening", "aborting"}
           /\ Closes(i)) =>
              /\ conn'[i].promise = "rejected"
              /\ state' = "disconnected"
              /\ reconnectTimeout' = reconnectTimeout
              /\ reconnectAttempts' = reconnectAttempts]_vars

\* the socket of the connect() of a caller closed before it opened, with
\* auto-reconnect on and the budget not used up: the call is rejected and no
\* timer is armed
C17_Witness ==
    /\ state = "disconnected"
    /\ autoReconnect /\ shouldReconnect(Cur)
    /\ ~reconnectTimeout
    /\ reconnectAttempts = 0
    /\ emitted = <<>>
    /\ \E i \in DOMAIN conn :
          /\ conn[i].phase = "closed"
          /\ conn[i].promise = "rejected"
          /\ ~conn[i].viaTimer
          /\ \A j \in DOMAIN conn : j # i => conn[j].phase = "free"

\* C18: the reconnect timers armed are one if the field reconnectTimeout
\* holds a handle and none otherwise, so never more than one; in every state
\* with a timer pending scheduleReconnect() does nothing; and a close event
\* handled while a timer is pending arms no timer and leaves the reconnect
\* counter as it is.
C18_OneReconnectTimer ==
    /\ [](reconnectTimers = IF reconnectTimeout THEN 1 ELSE 0)
    /\ [](LET S == Cur IN S.reconnectTimeout => scheduleReconnect(S) = S)
    /\ [][\A i \in DOMAIN conn :
            (reconnectTimeout /\ Closes(i)) =>
                /\ reconnectTimers' = reconnectTimers
                /\ reconnectTimeout'
                /\ reconnectAttempts' = reconnectAttempts]_vars

\* a timer was armed, the caller's connect() succeeded before it fired, and
\* the connection was lost with the budget not used up: the close called
\* scheduleReconnect() with the timer still pending
C18_Witness ==
    /\ reconnectTimeout
    /\ reconnectTimers = 1
    /\ state = "disconnected"
    /\ autoReconnect /\ shouldReconnect(Cur)
    /\ reconnectAttempts = 0
    /\ \E i \in DOMAIN conn :
          conn[i].phase = "closed" /\ conn[i].promise = "resolved"

\* C20: the delay of the timer a step arms, N being the counter after its
\* increment, is the smaller of reconnectInterval * 2^(N-1) and 30000; with
\* reconnectInterval = 1000 it is 1000, 2000, 4000, 8000, 16000 for N = 1..5
\* and 30000 for N = 6..10; it never exceeds 30000, and the delay computed
\* for N + 1 is never less than the delay computed for N.
C20_ReconnectDelay ==
    /\ [](armed # <<>> =>
            LET N == reconnectAttempts
                d == armed[1]
                product == reconnectInterval * 2^(N - 1)
            IN  /\ Len(armed) = 1
                /\ N >= 1
                /\ d <= product /\ d <= 30000
                /\ d = product \/ d = 30000
                /\ (reconnectInterval = 1000 /\ N <= 10) =>
                      d = <<1000, 2000, 4000, 8000, 16000,
                            30000, 30000, 30000, 30000, 30000>>[N])
    /\ [](LET S == Cur
          IN  S.reconnectAttempts >= 1 =>
                reconnectDelay(S)
                    <= reconnectDelay([S EXCEPT !.reconnectAttempts = @ + 1]))

\* the first delay the cap cuts: 1000 * 2^5 is 32000
C20_Witness ==
    /\ reconnectInterval = 1000
    /\ reconnectAttempts = 6
    /\ armed = <<30000>>
    /\ reconnectTimeout

\* C21 as claimed: once the token fetch of a connect() attempt has ended and
\* its socket has opened or closed, the promise of the attempt is settled:
\* no attempt whose token fetch failed, or whose socket is open or has
\* closed, has a pending promise.
C21_ConnectSettles ==
    \A i \in DOMAIN conn :
        conn[i].phase \in {"failed", "open", "closing", "closed"} =>
            conn[i].promise # "pending"

\* C27 as claimed: at no time are two sockets of the instance live (created
\* and not yet open, or open).
C27_OneLiveSocket ==
    Cardinality({i \in DOMAIN conn : conn[i].phase \in {"opening", "open"}}) <= 1

\* C28 as claimed: there is never more than one heartbeat timer; while one
\* runs the state is connected and the socket the instance holds is open;
\* and a step that handles a close event, is a disconnect() call or ends a
\* connection attempt in failure leaves no heartbeat timer running.
C28_Heartbeat ==
    /\ [](heartbeatTimers <= 1)
    /\ [](heartbeatTimers > 0 =>
            /\ state = "connected"
            /\ ws # 0
            /\ conn[ws].phase = "open")
    /\ [][(\/ DisconnectCalled
           \/ \E i \in DOMAIN conn :
                 \/ Closes(i)
                 \/ conn[i].phase = "fetching" /\ conn'[i].phase = "failed")
            => heartbeatTimers' = 0]_vars

\* the socket of attempt i opens in the step
Opens(i) == conn[i].phase = "opening" /\ conn'[i].phase = "open"

\* C30: the reconnect counter is 0 after every step in which a socket
\* opens; a step that arms a reconnect timer adds exactly 1 to it; no other
\* step changes it; and with maxReconnectAttempts not 0 it is never above
\* maxReconnectAttempts.
C30_ReconnectCounter ==
    /\ [][(\E i \in DOMAIN conn : Opens(i)) => reconnectAttempts' = 0]_vars
    /\ [][(reconnectTimers' > reconnectTimers) =>
             reconnectAttempts' = reconnectAttempts + 1]_vars
    /\ [][(reconnectAttempts' # reconnectAttempts) =>
             \/ \E i \in DOMAIN conn : Opens(i)
             \/ reconnectTimers' > reconnectTimers]_vars
    /\ [](maxReconnectAttempts # 0 =>
             reconnectAttempts <= maxReconnectAttempts)

\* a reconnection: the timer fired, the socket of its attempt opened and the
\* counter is back at 0
C30_Witness ==
    /\ reconnectAttempts = 0
    /\ state = "connected"
    /\ maxReconnectAttempts # 0
    /\ \E i \in DOMAIN conn : conn[i].phase = "open" /\ conn[i].viaTimer

----------------------------------------------------------------------------
(* Notification of the state listeners, under SpecNotify. *)

\* the state listeners are told in the order of registration, each once for
\* each change of state of the step
ToldInTurn(handlers, told) ==
    LET n == Len(handlers)
        k == Len(told)
    IN  IF n = 0 THEN k = 0
        ELSE /\ k % n = 0
             /\ \A j \in 1..k :
                   /\ told[j].handler = handlers[((j - 1) % n) + 1]
                   /\ told[j].state = told[((j - 1) \div n) * n + 1].state

\* C33: in every state and for every value s, setState(s) with s the
\* current value changes nothing and tells nobody; with another value it
\* writes s and tells every registered state listener once, in the order of
\* registration, the value s, whether or not a listener throws, and changes
\* nothing else.  In every step the listeners are told in turn, once for
\* each change of the step; when a listener is registered, the first value
\* told differs from the state before the step, the last value told is the
\* state after it, and a step that tells nobody leaves the state as it was.
C33_StateListeners ==
    /\ [](LET S == Cur
          IN  \A s \in ConnectionState :
                LET T == setState(S, s)
                IN  IF S.state = s THEN T = S
                    ELSE /\ T.state = s
                         /\ Len(T.stateCalls) = Len(S.stateHandlers)
                         /\ \A j \in DOMAIN S.stateHandlers :
                               /\ T.stateCalls[j].handler = S.stateHandlers[j]
                               /\ T.stateCalls[j].state = s
                         /\ T = [S EXCEPT !.state = s,
                                          !.stateCalls = T.stateCalls])
    /\ [][/\ ToldInTurn(stateHandlers, stateCalls')
          /\ stateHandlers # <<>> =>
                IF stateCalls' = <<>> THEN state' = state
                ELSE /\ stateCalls'[Len(stateCalls')].state = state'
                     /\ stateCalls'[1].state # state]_vars

\* two listeners are registered, the one that throws first; both were told
\* of the open connection, and the state is connected
C33_Witness ==
    /\ throws(1) /\ ~throws(2)
    /\ stateHandlers = <<1, 2>>
    /\ state = "connected"
    /\ Len(stateCalls) = 2
    /\ stateCalls[1].handler = 1 /\ stateCalls[1].state = "connected"
    /\ stateCalls[2].handler = 2 /\ stateCalls[2].state = "connected"

\* C34: in every state and for every value s, each listener that
\* setState(s) invokes is invoked with the value that getState() returns
\* while it runs; the same is true of every listener invoked in a step.
C34_ListenerSeesState ==
    /\ [](LET S == Cur
          IN  \A s \in ConnectionState :
                LET T == setState(S, s)
                IN  \A j \in DOMAIN T.stateCalls :
                      /\ T.stateCalls[j].state = s
                      /\ T.stateCalls[j].observed = s)
    /\ [][\A j \in DOMAIN stateCalls' :
            stateCalls'[j].observed = stateCalls'[j].state]_vars

\* a close event changed the state twice in one step: the listener saw
\* disconnected when it was told disconnected, and reconnecting after
C34_Witness ==
    /\ state = "reconnecting"
    /\ Len(stateCalls) >= 2
    /\ stateCalls[1].state = "disconnected"
    /\ stateCalls[1].observed = "disconnected"
    /\ stateCalls[Len(stateCalls)].state = "reconnecting"
    /\ stateCalls[Len(stateCalls)].observed = "reconnecting"

----------------------------------------------------------------------------
(* The heartbeat, under SpecBeat. *)

\* C35: in every state where the heartbeat runs and its callback sends the
\* probe, a probe that fails leaves the callback with no exception in
\* flight, with one error notification, and with the state, the socket
\* handle and the heartbeat timer as they were; no step lets an exception
\* escape from the heartbeat callback.
C35_ProbeFailureReported ==
    /\ [](LET S == Cur
          IN  S.heartbeatInterval /\ S.ws # 0 /\ S.state = "connected" =>
                LET T == heartbeatFired(S, "throws")
                IN  /\ T.thrown = ""
                    /\ Len(T.emitted) = 1
                    /\ T.state = S.state
                    /\ T.ws = S.ws
                    /\ T.heartbeatInterval)
    /\ [][ret' # "uncaught: ping failed"]_vars

\* C37: in every state, the socket handle is held while the state is
\* connected.
C37_ConnectedHoldsSocket == state = "connected" => ws # 0

\* C38: a connect() call that resolves finds the state connected at that
\* moment: the call of a step that returned resolved, and the call of every
\* attempt whose promise a step resolves.
C38_ResolvedIsConnected ==
    /\ [](ret = "connect: resolved" => state = "connected")
    /\ [][\A i \in DOMAIN conn :
            conn[i].promise = "pending" /\ conn'[i].promise = "resolved" =>
                state' = "connected"]_vars

\* C40: in every state, a reconnect timer is armed while the state is
\* reconnecting; and a step leaves reconnecting only as the timer fires or
\* connect() is called, for connecting, or as disconnect() is called, for
\* disconnected.
C40_ReconnectingHasTimer ==
    /\ [](state = "reconnecting" => reconnectTimeout /\ reconnectTimers > 0)
    /\ [][state = "reconnecting" /\ state' # "reconnecting" =>
            \/ /\ state' = "connecting"
               /\ \/ ret' = "connect: pending"
                  \/ reconnectTimers' < reconnectTimers
            \/ /\ state' = "disconnected"
               /\ DisconnectCalled]_vars

\* the reconnect timer fired in the state reconnecting, and its connect()
\* fetches the token
C40_Witness ==
    /\ state = "connecting"
    /\ ~reconnectTimeout /\ reconnectTimers = 0
    /\ reconnectAttempts = 1
    /\ \E i \in DOMAIN conn : conn[i].viaTimer /\ conn[i].phase = "fetching"

----------------------------------------------------------------------------
(* Properties of the subscription operations, under SpecSub. *)

\* the subscribe frame of a part of the registry
ReplayFrame(subscriptionType, items) ==
    [type |-> "subscribe", subscriptionType |-> subscriptionType, items |-> items]

\* the frame the replay owes once its command of type subscriptionType is
\* settled: that of the next non-empty part of the registry, if any
DueAfter(subscriptionType) ==
    IF subscriptionType = "all" /\ channels # <<>>
        THEN ReplayFrame("channel", channels)
    ELSE IF subscriptionType \in {"all", "channel"} /\ eventTypes # <<>>
        THEN ReplayFrame("event_type", eventTypes)
    ELSE NoFrame

\* C5 as claimed: the replay after a (re)connection sends one subscribe
\* command for every non-empty part of the registry: on a connection that
\* stands, the step that settles one replayed command sends the command of
\* the next non-empty part with exactly the items of the registry, and
\* nothing when no part is left.
C5_ReplayComplete ==
    \A c \in 1..Len(cmds) :
        (cmds[c].replay /\ cmds[c].result # "pending"
            /\ state = "connected" /\ ws # 0 /\ conn[ws].phase = "open") =>
            sent = DueAfter(cmds[c].subscriptionType)

\* C19 as claimed: on a connection that stands, the step in which a
\* replayed command fails (the server rejects it, or its timeout fires)
\* notifies the failure as one error, sends the command of the next
\* non-empty part of the registry, leaves the state connected and leaves the
\* connect() of the connection as it was settled.
C19_ReplayFailureIsolated ==
    [][LET old == DropSettled(cmds)
       IN  \A c \in 1..Len(old) :
             (/\ old[c].replay
              /\ c <= Len(cmds')
              /\ cmds'[c].result \notin {"pending", "confirmed"}
              /\ state = "connected" /\ ws # 0 /\ conn[ws].phase = "open") =>
                 /\ emitted' = <<"Failed to resubscribe: Error: "
                                    \o cmds'[c].result>>
                 /\ sent' = DueAfter(old[c].subscriptionType)
                 /\ state' = "connected"
                 /\ conn'[ws].promise = conn[ws].promise]_vars

\* the confirmation and rejection frames of a key
Confirmations(key) ==
    {m \in Frames :
        /\ m.type \in {"subscription_confirmed", "subscription_error"}
        /\ getSubscriptionKey(m.action, m.subscriptionType) = key}

\* what the caller of a command gets from the frame m that matches it
Outcome(m) ==
    IF m.type = "subscription_confirmed" THEN "confirmed"
    ELSE IF m.error # "" THEN m.error ELSE "Subscription failed"

\* the step is a public subscribe or unsubscribe call
SubscribeCalled == ret' \in {"sent", "Not connected"}

\* C6: a command that no frame matched keeps its timer armed; when the timer
\* fires the caller fails with the timeout error and no entry is left under
\* the command's key; a confirmation or rejection frame for a key without
\* entry, as one that arrives after the timeout, changes nothing and
\* notifies nobody.
C6_Timeout ==
    LET S == Cur
    IN  /\ \A c \in 1..Len(cmds) : cmds[c].result = "pending" => cmds[c].timer
        /\ \A c \in 1..Len(S.cmds) :
              S.cmds[c].timer =>
                  LET T == subscriptionTimeout(S, c)
                  IN  /\ T.cmds[c].result = "Subscription timeout"
                      /\ pendingGet(T, KeyOf(T.cmds[c])) = 0
        /\ \A c \in 1..Len(cmds) :
              cmds[c].result = "Subscription timeout" =>
                  (~cmds[c].timer /\ pendingGet(S, KeyOf(cmds[c])) = 0)
        /\ \A key \in Keys :
              pendingGet(S, key) = 0 =>
                  \A m \in Confirmations(key) : handleMessage(S, m) = S

\* a caller's command has timed out on a socket that is still open, so that a
\* late frame can arrive
C6_Witness ==
    \E c \in 1..Len(cmds) :
        /\ cmds[c].result = "Subscription timeout"
        /\ ~cmds[c].replay
        /\ \E i \in DOMAIN conn : conn[i].phase = "open"

\* C7: a pending entry belongs to a caller that is not yet settled and whose
\* timer is armed; a confirmation or rejection frame with the entry's key
\* settles that caller and no other (confirmed, or rejected with the
\* server's message or the fallback), removes the entry and cancels the
\* timer, and a
\* caller settled by a frame has no timer left that could reject it.
C7_ConfirmationSettles ==
    LET S == Cur
    IN  /\ \A c \in 1..Len(cmds) :
              cmds[c].tracked => (cmds[c].result = "pending" /\ cmds[c].timer)
        /\ \A c \in 1..Len(cmds) :
              cmds[c].result \notin {"pending", "Subscription timeout"} =>
                  (~cmds[c].timer /\ ~cmds[c].tracked)
        /\ \A key \in Keys :
              LET p == pendingGet(S, key)
              IN  p # 0 =>
                    \A m \in Confirmations(key) :
                        LET T == handleMessage(S, m)
                        IN  /\ T.cmds[p].result = Outcome(m)
                            /\ ~T.cmds[p].timer
                            /\ ~T.cmds[p].tracked
                            /\ \A d \in 1..Len(S.cmds) :
                                  d # p => T.cmds[d].result = S.cmds[d].result

\* a rejection frame without a message has matched a caller's command
C7_Witness ==
    \E c \in 1..Len(cmds) :
        cmds[c].result = "Subscription failed" /\ ~cmds[c].replay

Registry(S) ==
    [all |-> S.subscribedToAll, channels |-> Range(S.channels),
     eventTypes |-> Range(S.eventTypes)]

\* C10: in every state, each of the six calls leaves the registry at what was
\* requested, whether the call sends its command or fails with not
\* connected; and a confirmation, a rejection or a timeout leaves the
\* registry as it is.
C10_RegistryIsDesired ==
    LET S == Cur
        R == Registry(S)
    IN  /\ Registry(subscribeAll(S, FALSE)) = [R EXCEPT !.all = TRUE]
        /\ Registry(unsubscribeAll(S, FALSE)) = [R EXCEPT !.all = FALSE]
        /\ \A ids \in ChannelArgs :
              /\ Registry(subscribeChannels(S, ids, FALSE))
                    = [R EXCEPT !.channels = @ \cup Range(ids)]
              /\ Registry(unsubscribeChannels(S, ids, FALSE))
                    = [R EXCEPT !.channels = @ \ Range(ids)]
        /\ \A ts \in EventTypeArgs :
              /\ Registry(subscribeEventTypes(S, ts, FALSE))
                    = [R EXCEPT !.eventTypes = @ \cup Range(ts)]
              /\ Registry(unsubscribeEventTypes(S, ts, FALSE))
                    = [R EXCEPT !.eventTypes = @ \ Range(ts)]
        /\ \A m \in Frames : Registry(handleMessage(S, m)) = R
        /\ \A c \in 1..Len(S.cmds) :
              S.cmds[c].timer => Registry(subscriptionTimeout(S, c)) = R

\* a channel subscription stands in the registry although the server has
\* rejected its command
C10_Witness ==
    \E c \in 1..Len(cmds) :
        /\ cmds[c].action = "subscribe"
        /\ cmds[c].subscriptionType = "channel"
        /\ ~cmds[c].replay
        /\ cmds[c].result = "denied"
        /\ sent = NoFrame
        /\ channels # <<>>

----------------------------------------------------------------------------
(* Properties of commands of one key in flight together, under SpecKey. *)

\* C8: there is at most one pending entry per key; a command whose entry was
\* overwritten by a later command of the same key keeps its timer, and no
\* step settles it otherwise than by its timeout: a confirmation that
\* arrives settles the later command only.
C8_OverwriteOnSameKey ==
    /\ [](\A c, d \in 1..Len(cmds) :
            (cmds[c].tracked /\ cmds[d].tracked /\ KeyOf(cmds[c]) = KeyOf(cmds[d]))
                => c = d)
    /\ [](\A c \in 1..Len(cmds) :
            (cmds[c].result = "pending" /\ ~cmds[c].tracked) => cmds[c].timer)
    /\ [][\A c \in 1..Len(Cur.cmds) :
            ~Cur.cmds[c].tracked =>
                cmds'[c].result \in {"pending", "Subscription timeout"}]_vars

\* the second of two commands of one key was confirmed and the first, whose
\* entry it had overwritten, still waits
C8_Witness ==
    /\ Len(cmds) = 2
    /\ KeyOf(cmds[1]) = KeyOf(cmds[2])
    /\ cmds[1].result = "pending" /\ ~cmds[1].tracked
    /\ cmds[2].result = "confirmed"

\* C39: in every state, the timeout of a command leaves the entries of the
\* other commands in flight as they are, and a command that holds an entry
\* still gets the outcome of a confirmation or rejection frame of its key
\* that arrives after the timeout of the other command.
C39_TimeoutRemovesOwnEntry ==
    LET S == Cur
    IN  \A c \in DOMAIN S.cmds :
          (S.cmds[c].timer /\ \A e \in 1..(c - 1) : ~S.cmds[e].timer) =>
              LET T == subscriptionTimeout(S, c)
              IN  \A d \in DOMAIN S.cmds \ {c} :
                    /\ T.cmds[d].tracked = S.cmds[d].tracked
                    /\ S.cmds[d].tracked /\ S.cmds[d].result = "pending" =>
                          \A m \in Confirmations(KeyOf(S.cmds[d])) :
                              handleMessage(T, m).cmds[d].result = Outcome(m)

----------------------------------------------------------------------------
(* Further properties of the subscriptions, under SpecSub. *)

\* C11: a step that is not a subscribe or unsubscribe call (connect(),
\* disconnect(), a token fetch ending, a socket opening, closing or failing,
\* a reconnect timer, a frame, a confirmation timeout, the replay they run)
\* leaves subscribedToAll, the channels and the event types as they are.
C11_RegistryOnlyByCalls ==
    [][~SubscribeCalled =>
          /\ subscribedToAll' = subscribedToAll
          /\ channels' = channels
          /\ eventTypes' = eventTypes]_vars

\* the replay after a lost connection sends the channels of the registry, in
\* a step of the reconnect that no caller made
C11_Witness ==
    /\ ret = "none"
    /\ sent = ReplayFrame("channel", channels)
    /\ channels # <<>>
    /\ \E i \in DOMAIN conn : conn[i].phase = "open" /\ conn[i].viaTimer

\* the frame that cannot be parsed, and the notification it gives
Malformed ==
    [type |-> "malformed", action |-> "", subscriptionType |-> "", error |-> ""]
ParseFailure == "Failed to parse message: SyntaxError"

\* C14: in every state, handling a frame that cannot be parsed gives one
\* error notification, the parse failure, and nothing else: no exception is
\* left and the instance is as before; and a step that notifies the parse
\* failure leaves state, socket, attempts, registry, commands and timers as
\* they are, so that the socket goes on delivering frames.
C14_MalformedFrame ==
    /\ [](LET S == Cur
          IN  handleMessage(S, Malformed)
                  = [S EXCEPT !.emitted = <<ParseFailure>>])
    /\ [][emitted' = <<ParseFailure>> =>
            /\ state' = state
            /\ ws' = ws
            /\ conn' = DropEnded(conn)
            /\ cmds' = DropSettled(cmds)
            /\ sent' = NoFrame
            /\ subscribedToAll' = subscribedToAll
            /\ channels' = channels
            /\ eventTypes' = eventTypes
            /\ reconnectTimeout' = reconnectTimeout
            /\ heartbeatInterval' = heartbeatInterval]_vars

\* a frame that cannot be parsed arrived while a command was pending
C14_Witness ==
    /\ emitted = <<ParseFailure>>
    /\ state = "connected"
    /\ \E c \in 1..Len(cmds) : cmds[c].tracked /\ cmds[c].result = "pending"

----------------------------------------------------------------------------
(* Properties of subscribe(options) and unsubscribe(options), under         *)
(* SpecOpt.                                                                 *)

MustSpecify == "Must specify at least one channel or event type"

\* the options with neither field populated: each absent or empty
EmptyOptions ==
    {o \in OptionArgs : ~hasLength(o.channels) /\ ~hasLength(o.eventTypes)}

\* C12: in every state, subscribe(options) with neither channels nor
\* eventTypes populated fails with the invalid-argument error and
\* unsubscribe(options) with neither populated completes, and both leave the
\* instance as it is: nothing sent, registry and pending entries unchanged;
\* and the steps that end so change no command, registry part or state.
C12_EmptyOptions ==
    /\ [](LET S == Cur
          IN  \A o \in EmptyOptions :
                /\ subscribe(S, o) = [S EXCEPT !.thrown = MustSpecify]
                /\ unsubscribe(S, o) = S)
    /\ [][ret' \in {MustSpecify, "nothing to do"} =>
            /\ sent' = NoFrame
            /\ cmds' = DropSettled(cmds)
            /\ subscribedToAll' = subscribedToAll
            /\ channels' = channels
            /\ eventTypes' = eventTypes
            /\ state' = state]_vars

\* subscribe(options) without channels or event types has failed on an
\* open connection
C12_Witness ==
    /\ ret = MustSpecify
    /\ state = "connected"
    /\ ws # 0 /\ conn[ws].phase = "open"

----------------------------------------------------------------------------
(* Properties of the event listeners and of frame handling, under           *)
(* SpecListen.                                                              *)

\* C13: in every state, handling an event frame invokes every registered
\* event listener once, in the order of registration and with the event of
\* the frame, whichever of them throw, and leaves everything else as it is:
\* no exception is left, no error is notified, the state is unchanged; and
\* so are the steps that deliver an event.
C13_ListenerIsolation ==
    /\ [](LET S == Cur
          IN  \A m \in EventFrames :
                m.data # "" =>
                    LET T == handleMessage(S, m)
                    IN  /\ Len(T.calls) = Len(S.eventHandlers)
                        /\ \A k \in 1..Len(T.calls) :
                              T.calls[k] = [handler |-> S.eventHandlers[k],
                                            event |-> m.data]
                        /\ [T EXCEPT !.calls = <<>>] = S)
    /\ [][calls' # <<>> =>
            /\ Len(calls') = Len(eventHandlers)
            /\ state' = state
            /\ ws' = ws
            /\ emitted' = <<>>]_vars

\* an event went to two listeners, the first of which threw
C13_Witness ==
    /\ Len(calls) = 2
    /\ throws(calls[1].handler)
    /\ ~throws(calls[2].handler)
    /\ calls[1].event = calls[2].event

----------------------------------------------------------------------------
(* Effects of socket events (SpecSub) and of dropped frames (SpecKey). *)

\* C31: in every state, the error event of a socket gives one error
\* notification and rejects the connect() of the socket's attempt if the
\* state is connecting and the call is not yet settled, and nothing else; a
\* step that notifies a socket error leaves the state, the socket handle,
\* the reconnect counter, the timers, the registry and the commands in
\* flight as they are.
C31_SocketError ==
    /\ [](LET S == Cur
          IN  \A i \in DOMAIN S.conn :
                S.conn[i].phase \in {"opening", "open", "closing", "aborting"} =>
                    onerror(S, i) =
                        [S EXCEPT
                           !.emitted = <<"WebSocket error">>,
                           !.conn[i].promise =
                               IF S.state = "connecting" /\ @ = "pending"
                               THEN "rejected" ELSE @])
    /\ [][emitted' = <<"WebSocket error">> =>
            /\ state' = state
            /\ ws' = ws
            /\ reconnectAttempts' = reconnectAttempts
            /\ reconnectTimeout' = reconnectTimeout
            /\ reconnectTimers' = reconnectTimers
            /\ heartbeatInterval' = heartbeatInterval
            /\ heartbeatTimers' = heartbeatTimers
            /\ subscribedToAll' = subscribedToAll
            /\ channels' = channels
            /\ eventTypes' = eventTypes
            /\ cmds' = DropSettled(cmds)
            /\ sent' = NoFrame
            /\ stateCalls' = <<>>]_vars

\* the socket of a connect() in progress had an error: the call is rejected
\* and the state is still connecting
C31_Witness ==
    /\ emitted = <<"WebSocket error">>
    /\ state = "connecting"
    /\ \E i \in DOMAIN conn :
          conn[i].phase = "opening" /\ conn[i].promise = "rejected"

\* the listeners 1..n, registered in this order
RECURSIVE UpTo(_)
UpTo(n) == IF n = 0 THEN <<>> ELSE Append(UpTo(n - 1), n)

\* the frames that handleMessage has no branch for in the record S: the
\* greeting, a type it does not know, and a confirmation or an error for a
\* key under which no command is held
Dropped(S) ==
    {m \in Frames :
        \/ m.type \in {"connected", "other"}
        \/ /\ m.type \in {"subscription_confirmed", "subscription_error"}
           /\ pendingGet(S, getSubscriptionKey(m.action, m.subscriptionType)) = 0}

\* C32: in every state, with every event listener and every state listener
\* registered, a frame of type connected, of an unknown type, or a
\* confirmation or error with no command held under its key leaves the
\* whole record as it is: no event, state or error listener is invoked,
\* nothing is sent, and the state, the registry, the commands in flight
\* and the timers are unchanged.
C32_DroppedFrames ==
    LET S == Cur
        R == [S EXCEPT !.eventHandlers = UpTo(MaxHandlers),
                       !.stateHandlers = UpTo(MaxStateHandlers)]
    IN  \A m \in Dropped(R) :
          LET T == handleMessage(R, m)
          IN  /\ T = R
              /\ T.calls = <<>> /\ T.stateCalls = <<>> /\ T.emitted = <<>>
              /\ T.sent = NoFrame

\* a socket is open with a command in flight, so that some confirmations
\* find an entry and others do not
C32_Witness ==
    /\ state = "connected"
    /\ \E i \in DOMAIN conn : conn[i].phase = "open"
    /\ \E c \in DOMAIN cmds : cmds[c].tracked /\ cmds[c].timer
    /\ \E m \in Dropped(Cur) : m.type = "subscription_confirmed"
    /\ \E m \in Frames \ Dropped(Cur) : m.type = "subscription_confirmed"

----------------------------------------------------------------------------
(* Termination of the subscription commands, under SpecKeyFair. *)

\* C29: a command that was sent and is not settled has its timeout armed,
\* whatever happened to its pending entry and to the socket; the callback
\* of the timeout settles it in every state; and so, the timers firing
\* oldest first, whenever commands are in flight one of them is settled
\* later.
C29_CommandsSettle ==
    /\ [](\A c \in 1..Len(cmds) : cmds[c].result = "pending" => cmds[c].timer)
    /\ [](LET S == Cur
          IN  \A c \in 1..Len(S.cmds) :
                 subscriptionTimeout(S, c).cmds[c].result # "pending")
    /\ (DropSettled(cmds) # <<>>) ~>
          (\E c \in 1..Len(cmds) : cmds[c].result # "pending")

\* a command whose pending entry a later command of its key had overwritten
\* is settled by its timeout, after disconnect()
C29_Witness ==
    /\ state = "disconnected"
    /\ ~autoReconnect
    /\ \E c, d \in 1..Len(cmds) :
          /\ c < d
          /\ KeyOf(cmds[c]) = KeyOf(cmds[d])
          /\ cmds[c].result = "Subscription timeout"
          /\ cmds[d].result = "pending"

----------------------------------------------------------------------------
(* Properties of the HTTP client, under SpecHttp. *)

\* a 503 that carries header as its Retry-After
Unavailable(header) == Response(503, header, TRUE)
\* the Retry-After values that do not ask for a delay of zero
NotZero == RetryAfterHeaders \ {Header(<<"0">>)}

NotOk == {response \in Responses : ~ok(response.status)}

\* C23: in every state in which an attempt is in progress, a response that
\* is not a success is followed by a sleep (and so by a further attempt)
\* exactly if its status is 429 or at least 500, attempt < maxRetries and
\* its retry delay is positive; otherwise the error of its status is raised
\* as it is, in the same step and with no attempt made in it.  Once an error
\* is raised nothing happens until the next request().
C23_RetryIff ==
    /\ [](http.phase = "executing" =>
            \A response \in NotOk, random \in Jitters :
               LET T == attempted(http, response, random)
                   retried ==
                       /\ response.status >= 500 \/ response.status = 429
                       /\ http.attempt < http.maxRetries
                       /\ getRetryAfter(response, http.attempt, random) > 0
               IN  /\ T.fetches = http.fetches
                   /\ T.attempt = http.attempt
                   /\ IF retried
                      THEN T.phase = "sleeping"
                      ELSE /\ T.phase = "raised"
                           /\ T.outcome.error = handleErrorResponse(response))
    /\ [][http.phase = "raised" => http' = request(http)]_vars

\* a 429 with Retry-After: 0 was raised at once, with attempts left
C23_Witness ==
    /\ http.phase = "raised"
    /\ http.outcome.error.name = "RateLimitError"
    /\ http.outcome.error.retryAfter = Number(0)
    /\ http.attempt = 0
    /\ http.maxRetries = 3

\* C24: the error made of a response that is not a success has the kind of
\* its status: 400 ValidationError, 401 AuthenticationError, 403
\* AuthorizationError, 404 NotFoundError, 429 RateLimitError with the value
\* of Retry-After, 500 and above ServerError, anything else APIError; this
\* for every status from 300 to 599 and every header, and for every API
\* error a request() has raised.
C24_ErrorKinds ==
    LET kind(status) ==
            CASE status = 400 -> "ValidationError"
              [] status = 401 -> "AuthenticationError"
              [] status = 403 -> "AuthorizationError"
              [] status = 404 -> "NotFoundError"
              [] status = 429 -> "RateLimitError"
              [] status >= 500 -> "ServerError"
              [] OTHER -> "APIError"
        seconds(header) ==
            CASE header = Header(<<"0">>) -> Number(0)
              [] header = Header(<<"2">>) -> Number(2)
              [] header = Header(<<"1", "0">>) -> Number(10)
              [] header = Null -> Number(60)
              [] OTHER -> NaN
    IN  /\ http.phase = "executing" =>
              \A status \in 300..599, header \in RetryAfterHeaders :
                  LET error == handleErrorResponse(
                                   Response(status, header, TRUE))
                  IN  /\ error.name = kind(status)
                      /\ error.statusCode = status
                      /\ error.retryAfter =
                            IF status = 429 THEN seconds(header)
                                            ELSE Undefined
        /\ (http.phase = "raised" /\ isAPIError(http.outcome.error)) =>
              /\ http.outcome.error.name = kind(http.outcome.error.statusCode)
              /\ http.outcome.error.statusCode \in http.statuses

\* a 429 with Retry-After: 10 on the last attempt: the RateLimitError
\* raised carries 10
C24_Witness ==
    /\ http.phase = "raised"
    /\ http.outcome.error.name = "RateLimitError"
    /\ http.outcome.error.statusCode = 429
    /\ http.outcome.error.retryAfter = Number(10)

\* C25: when a response with status 429 or at least 500 is followed by a
\* sleep, the sleep is s * 1000 ms if the response carries Retry-After: s
\* (s a number), and otherwise, a being the index of the attempt, the
\* smaller of 1000 * 2^a and 30000 plus a jitter from 0 to less than 1000.
C25_RetryDelay ==
    LET isNumber(header) ==
            header \in {Header(<<"0">>), Header(<<"2">>), Header(<<"1", "0">>)}
        seconds(header) ==
            CASE header = Header(<<"0">>) -> 0
              [] header = Header(<<"2">>) -> 2
              [] header = Header(<<"1", "0">>) -> 10
        backoff(a) == IF 1000 * 2^a < 30000 THEN 1000 * 2^a ELSE 30000
    IN  http.phase = "executing" =>
          \A response \in NotOk, random \in Jitters :
             LET T == attempted(http, response, random)
             IN  T.phase = "sleeping" =>
                   IF isNumber(response.retryAfter)
                   THEN T.slept = seconds(response.retryAfter) * 1000
                   ELSE /\ T.slept >= backoff(http.attempt)
                        /\ T.slept < backoff(http.attempt) + 1000
                        /\ T.slept = backoff(http.attempt) + random

\* the sleep of Retry-After: 10 after the first attempt, where the backoff
\* would be between 1000 and 2000
C25_Witness ==
    /\ http.phase = "sleeping"
    /\ http.attempt = 0
    /\ http.slept = 10000

\* C26 as claimed: a failure of the transport on an attempt is followed by
\* a sleep of the backoff of the attempt if attempts remain, and on the
\* last attempt (the one after maxRetries retries) a NetworkError is raised.
C26_TransportFailure ==
    http.phase = "executing" =>
        \A failure \in Failures, random \in Jitters :
            LET T == attempted(http, failure, random)
            IN  IF http.attempt < http.maxRetries
                THEN /\ T.phase = "sleeping"
                     /\ T.slept = calculateBackoff(http.attempt, random)
                ELSE /\ T.phase = "raised"
                     /\ T.fetches = http.maxRetries + 1
                     /\ T.outcome.error.name = "NetworkError"

\* C36: a request() in progress has made one fetch more than its attempt
\* counter says, whether the retries before followed a response or a
\* failure of the transport, and never more than maxRetries + 1; the fetch
\* made when the counter is at maxRetries ends the request whatever its
\* answer; a request that ended has returned a value or raised an error;
\* and every request in progress ends.
C36_RequestTerminates ==
    /\ [](/\ http.fetches <= http.maxRetries + 1
          /\ http.attempt <= http.maxRetries
          /\ http.phase \in {"executing", "sleeping"} =>
                http.fetches = http.attempt + 1
          /\ http.phase = "sleeping" => http.attempt < http.maxRetries
          /\ http.phase = "executing" /\ http.attempt = http.maxRetries =>
                \A answer \in Answers, random \in Jitters :
                    attempted(http, answer, random).phase \in {"returned", "raised"}
          /\ http.phase = "returned" =>
                http.outcome.value # "" /\ http.outcome.error = NoError
          /\ http.phase = "raised" =>
                http.outcome.value = "" /\ http.outcome.error # NoError)
    /\ (http.phase \in {"executing", "sleeping"}
            ~> http.phase \in {"returned", "raised"})

\* a request ended with an error after maxRetries + 1 fetches, some retried
\* after a failure of the transport and some after a response
C36_Witness ==
    /\ http.phase = "raised"
    /\ http.maxRetries >= 2
    /\ http.fetches = http.maxRetries + 1
    /\ 0 \in http.statuses
    /\ \E status \in http.statuses : status >= 500

====
